---- MODULE Spec2Model ----
(***************************************************************************)
(* Model of the software-copyright document generator:                     *)
(*   src/ai_bridge.py      AIBridge (request slot, complete_request, CLI)  *)
(*   src/main.py           ClaudeCodeIntegrator, SoftwareCopyrightOrchestrator *)
(*   src/auto_generator.py AutoGenerator (pending-marker watcher)          *)
(*                                                                         *)
(* Text is modelled as a sequence of tokens.  A token is a fragment of     *)
(* text with a length in characters (TokLen), a lower-cased form           *)
(* (TokLower) and the set of search strings that occur in it (Needles).    *)
(* Python's `needle in text` is Has(text, needle), len(text) is StrLen.    *)
(* File contents are text written and read back in text mode without       *)
(* carriage returns, so a write followed by a read is the stored text.     *)
(***************************************************************************)
EXTENDS Integers, Sequences, FiniteSets, TLC

(***************************************************************************)
(* Text                                                                    *)
(***************************************************************************)

\* src/main.py:1883-1893, in the order of the list
failure_patterns ==
    << "I've created a complete",
       "Here's what's included:",
       "The page includes:",
       "**Design Features:**",
       "**Structure:**",
       "**Features Implemented:**",
       "**Code Details:**",
       "The file has been created successfully",
       "This is a production-ready" >>

Range(s) == { s[i] : i \in 1..Len(s) }

PatternSet == Range(failure_patterns)

\* the substring vocabulary of _generate_module_specific_content, src/main.py:1061-1342;
\* each keyword is two Chinese characters, written here in pinyin
Keywords ==
    { "quhao", "paidui", "duilie", "jiaohao", "xianshi", "yisheng", "jiezhen", "tongji", "baobiao",
      "xitong", "guanli", "houzhen", "yindao", "yuyue", "tongzhi", "xiaoxi" }

\* len() of a token
TokLen(t) ==
    CASE t \in Keywords -> 2
      [] t = "yonghu" -> 2
      [] t = "x" -> 1
      [] t = "Text967" -> 967
      [] t = "<!DOCTYPE html>" -> 15
      [] t = "<!doctype html>" -> 15
      [] t \in { "<html>", "<HTML>", "<head>", "<body>" } -> 6
      [] t \in { "</html>", "<style>", "<STYLE>" } -> 7
      [] t = "<header>" -> 8
      [] t \in { "I've created a complete", "i've created a complete" } -> 23
      [] t \in { "Here's what's included:", "here's what's included:" } -> 23
      [] t \in { "The page includes:", "the page includes:" } -> 18
      [] t \in { "**Design Features:**", "**design features:**" } -> 20
      [] t \in { "**Structure:**", "**structure:**" } -> 14
      [] t \in { "**Features Implemented:**", "**features implemented:**" } -> 25
      [] t \in { "**Code Details:**", "**code details:**" } -> 17
      [] t \in { "The file has been created successfully",
                 "the file has been created successfully" } -> 38
      [] t \in { "This is a production-ready", "this is a production-ready" } -> 26
      \* fixed text of _generate_html_template, src/main.py:462-684
      [] t = "TplA" -> 156
      [] t = " - " -> 3
      [] t = "TplB" -> 4132
      [] t = "TplC" -> 117
      [] t = "TplD" -> 184
      [] t = "TplE" -> 171
      \* the three pieces of the default description, src/main.py:642
      [] t = "DefDescA" -> 4
      [] t = "DefDescB" -> 12
      [] t = "DefDescC" -> 8
      [] t = "TplP" -> 34
      [] t = "FeatHead" -> 154
      [] t = "FeatLi" -> 48
      [] t = "FeatLiEnd" -> 6
      [] t = "FeatTail" -> 34
      [] t = "TplG" -> 162
      [] t = "TplH" -> 168
      [] t = "TplI" -> 343
      \* the sections of _generate_module_specific_content, src/main.py:1061-1398
      [] t = "SecTicket" -> 1307
      [] t = "SecQueue" -> 2126
      [] t = "SecDisplay" -> 1634
      [] t = "SecDoctor" -> 1654
      [] t = "SecStats" -> 1886
      [] t = "SecAdmin" -> 1473
      [] t = "SecGuide" -> 2492
      [] t = "SecBooking" -> 1559
      [] t = "SecNotify" -> 1828
      [] t = "SecGeneric" -> 953
      \* fixed text of _generate_html_fallback, src/ai_bridge.py:410-444
      [] t = "FbOpen" -> 5
      [] t = "FbSep" -> 10
      [] t = "FbA" -> 161
      [] t = "FbB" -> 623
      [] t = "FbC" -> 71
      [] t = "FbD" -> 31
      [] t = "FbFeat" -> 35
      [] t = "FbFeatEnd" -> 7
      [] t = "FbE" -> 44
      [] t = "FbF" -> 36
      [] OTHER -> 1

\* str.lower() of a token
TokLower(t) ==
    CASE t = "<HTML>" -> "<html>"
      [] t = "<STYLE>" -> "<style>"
      [] t = "<!DOCTYPE html>" -> "<!doctype html>"
      [] t = "I've created a complete" -> "i've created a complete"
      [] t = "Here's what's included:" -> "here's what's included:"
      [] t = "The page includes:" -> "the page includes:"
      [] t = "**Design Features:**" -> "**design features:**"
      [] t = "**Structure:**" -> "**structure:**"
      [] t = "**Features Implemented:**" -> "**features implemented:**"
      [] t = "**Code Details:**" -> "**code details:**"
      [] t = "The file has been created successfully" ->
             "the file has been created successfully"
      [] t = "This is a production-ready" -> "this is a production-ready"
      [] OTHER -> t

\* the search strings that occur in a token (case-sensitive)
Needles(t) ==
    CASE t = "<html>" -> { "<html" }
      [] t = "<head>" -> { "<head" }
      [] t = "<header>" -> { "<head" }
      [] t = "<body>" -> { "<body" }
      [] t = "</html>" -> { "</html>" }
      [] t = "<style>" -> { "<style" }
      [] t \in Keywords -> { t }
      [] t \in PatternSet -> { t }
      [] t = "TplA" -> { "<html", "<head" }
      [] t = "TplB" -> { "<head", "<body", "<style" }
      [] t = "TplI" -> { "</html>" }
      [] t = "FbA" -> { "<html", "<head" }
      [] t = "FbB" -> { "<head", "<body", "<style" }
      [] t = "FbF" -> { "</html>" }
      [] OTHER -> {}

RECURSIVE StrLen(_)
StrLen(s) == IF s = << >> THEN 0 ELSE TokLen(Head(s)) + StrLen(Tail(s))

Has(s, needle) == \E i \in 1..Len(s) : needle \in Needles(s[i])

lower(s) == [ i \in 1..Len(s) |-> TokLower(s[i]) ]

(***************************************************************************)
(* Validation: SoftwareCopyrightOrchestrator._validate_html                *)
(***************************************************************************)

\* src/main.py:1900
MinHtmlLen == 1000

Accept == [ ok |-> TRUE, reason |-> "", detail |-> "" ]

\* a rejection whose message does not name what was found
RejectWithoutDetail(reason, detail) == [ ok |-> FALSE, reason |-> reason, detail |-> "" ]

Reject(reason, detail) == [ ok |-> FALSE, reason |-> reason, detail |-> detail ]

\* FirstPattern searching the lower-cased text
FirstPatternInLowered(html_code) ==
    LET found == { i \in 1..Len(failure_patterns) :
                       Has(lower(html_code), failure_patterns[i]) }
    IN  IF found = {} THEN 0
        ELSE CHOOSE i \in found : \A j \in found : i <= j

\* index of the first pattern of failure_patterns found in the text, 0 if none
FirstPattern(html_code) ==
    LET found == { i \in 1..Len(failure_patterns) : Has(html_code, failure_patterns[i]) }
    IN  IF found = {} THEN 0
        ELSE CHOOSE i \in found : \A j \in found : i <= j

\* _validate_html with the style check ahead of the length check
validate_html_style_first(html_code) ==
    LET html_lower == lower(html_code)
    IN  IF ~Has(html_lower, "<html") THEN Reject("missing tag", "<html>")
        ELSE IF ~Has(html_lower, "<head") THEN Reject("missing tag", "<head>")
        ELSE IF ~Has(html_lower, "<body") THEN Reject("missing tag", "<body>")
        ELSE IF ~Has(html_lower, "</html>") THEN Reject("missing tag", "</html>")
        ELSE IF FirstPattern(html_code) # 0
             THEN Reject("explanatory text", failure_patterns[FirstPattern(html_code)])
        ELSE IF ~Has(html_lower, "<style") THEN Reject("missing tag", "<style>")
        ELSE IF StrLen(html_code) < MinHtmlLen THEN Reject("too short", "")
        ELSE Accept

validate_html(html_code) ==
    LET html_lower == lower(html_code)
    IN  IF ~Has(html_lower, "<html") THEN Reject("missing tag", "<html>")
        ELSE IF ~Has(html_lower, "<head") THEN Reject("missing tag", "<head>")
        ELSE IF ~Has(html_lower, "<body") THEN Reject("missing tag", "<body>")
        ELSE IF ~Has(html_lower, "</html>") THEN Reject("missing tag", "</html>")
        ELSE IF FirstPattern(html_code) # 0
             THEN Reject("explanatory text", failure_patterns[FirstPattern(html_code)])
        ELSE IF StrLen(html_code) < MinHtmlLen THEN Reject("too short", "")
        ELSE IF ~Has(html_lower, "<style") THEN Reject("missing tag", "<style>")
        ELSE Accept

(***************************************************************************)
(* Fallback Generator: ClaudeCodeIntegrator._generate_html_template        *)
(***************************************************************************)

\* _generate_module_specific_content with the test for the system terms first
generate_module_specific_content_admin_first(module_name) ==
    IF Has(module_name, "xitong") \/ Has(module_name, "guanli") THEN << "SecAdmin" >>
    ELSE IF Has(module_name, "quhao") \/ Has(module_name, "paidui") THEN << "SecTicket" >>
    ELSE IF Has(module_name, "duilie") THEN << "SecQueue" >>
    ELSE IF Has(module_name, "jiaohao") /\ Has(module_name, "xianshi") THEN << "SecDisplay" >>
    ELSE IF Has(module_name, "yisheng") \/ Has(module_name, "jiezhen") THEN << "SecDoctor" >>
    ELSE IF Has(module_name, "tongji") \/ Has(module_name, "baobiao") THEN << "SecStats" >>
    ELSE IF Has(module_name, "houzhen") \/ Has(module_name, "yindao") THEN << "SecGuide" >>
    ELSE IF Has(module_name, "yuyue") THEN << "SecBooking" >>
    ELSE IF Has(module_name, "tongzhi") \/ Has(module_name, "xiaoxi") THEN << "SecNotify" >>
    ELSE << "SecGeneric" >>

\* "\n".join of the section chosen by the first matching keyword test
generate_module_specific_content(module_name) ==
    IF Has(module_name, "quhao") \/ Has(module_name, "paidui") THEN << "SecTicket" >>
    ELSE IF Has(module_name, "duilie") THEN << "SecQueue" >>
    ELSE IF Has(module_name, "jiaohao") /\ Has(module_name, "xianshi") THEN << "SecDisplay" >>
    ELSE IF Has(module_name, "yisheng") \/ Has(module_name, "jiezhen") THEN << "SecDoctor" >>
    ELSE IF Has(module_name, "tongji") \/ Has(module_name, "baobiao") THEN << "SecStats" >>
    ELSE IF Has(module_name, "xitong") \/ Has(module_name, "guanli") THEN << "SecAdmin" >>
    ELSE IF Has(module_name, "houzhen") \/ Has(module_name, "yindao") THEN << "SecGuide" >>
    ELSE IF Has(module_name, "yuyue") THEN << "SecBooking" >>
    ELSE IF Has(module_name, "tongzhi") \/ Has(module_name, "xiaoxi") THEN << "SecNotify" >>
    ELSE << "SecGeneric" >>

\* the <li> lines of the feature list, src/main.py:653-654
RECURSIVE FeatureItems(_)
FeatureItems(features) ==
    IF features = << >> THEN << >>
    ELSE << "FeatLi" >> \o Head(features) \o << "FeatLiEnd" >> \o FeatureItems(Tail(features))

generate_html_template(module_name, software_name, module_info) ==
    LET description == module_info.description
        features == module_info.features
    IN  << "TplA" >> \o module_name \o << " - " >> \o software_name
        \o << "TplB" >> \o software_name
        \o << "TplC" >> \o module_name
        \o << "TplD" >> \o module_name
        \o << "TplE" >>
        \o (IF description # << >> THEN description
            ELSE << "DefDescA" >> \o software_name \o << "DefDescB" >>
                 \o module_name \o << "DefDescC" >>)
        \o << "TplP" >>
        \o (IF features # << >>
            THEN << "FeatHead" >> \o FeatureItems(features) \o << "FeatTail" >>
            ELSE << >>)
        \o generate_module_specific_content(module_name)
        \o << "TplG" >> \o software_name
        \o << "TplH" >> \o module_name
        \o << "TplI" >>

(***************************************************************************)
(* Direct CLI generation: generate_html_code_auto, _generate_html_fallback *)
(***************************************************************************)

\* the <div class='feature'> lines, src/ai_bridge.py:437-438
RECURSIVE FallbackFeatures(_)
FallbackFeatures(features) ==
    IF features = << >> THEN << >>
    ELSE << "FbFeat" >> \o Head(features) \o << "FbFeatEnd" >>
         \o FallbackFeatures(Tail(features))

\* ai_bridge._generate_html_fallback
generate_html_fallback(module_name, software_name, module_info) ==
    LET description == module_info.description
        features == module_info.features
    IN  << "FbOpen" >> \o module_name \o << " - " >> \o software_name
        \o << "FbSep" >> \o description
        \o << "FbA" >> \o module_name \o << " - " >> \o software_name
        \o << "FbB" >> \o module_name
        \o << "FbC" >> \o description
        \o << "FbD" >> \o FallbackFeatures(features)
        \o << "FbE" >> \o software_name
        \o << "FbF" >>

\* positions where re.search(r'<!DOCTYPE html>.*|<html[^>]*>.*', IGNORECASE) can match
HtmlStarts(result) ==
    { i \in 1..Len(result) : TokLower(result[i]) \in { "<!doctype html>", "<html>" } }

\* generate_html_code_auto on the text of the CLI response, src/ai_bridge.py:379-394:
\* the text from the first <!DOCTYPE html> or <html tag on, if it has <html,
\* <body and </html>; << >> stands for the ValueError raised otherwise
html_from_cli(result) ==
    LET starts == HtmlStarts(result)
        first == CHOOSE i \in starts : \A j \in starts : i <= j
        html == IF starts = {} THEN << >> ELSE SubSeq(result, first, Len(result))
    IN  IF /\ html # << >>
           /\ Has(lower(html), "<html")
           /\ Has(lower(html), "<body")
           /\ Has(lower(html), "</html>")
        THEN html
        ELSE << >>

(***************************************************************************)
(* State                                                                   *)
(***************************************************************************)

VARIABLES
    html_code,      \* the argument of a _validate_html call
    verdict,        \* its return value
    fb_args,        \* the arguments of a _generate_html_template call
    fb_html,        \* its return value
    modules,        \* SoftwareCopyrightOrchestrator.modules
    software_name,  \* variables["software_name"]
    module_files,   \* PROCESS_DIR/module_<i>_<name>.html: module index -> file
    front,          \* generate_frontend_code: its position, module index i, attempt
    stats,          \* per module: what the retry loop has done for it so far
    request_file,   \* REQUEST_FILE, the request slot prompts/.generation_request
    process_dir,    \* PROCESS_DIR: output file name -> file
    prompt_files,   \* PROMPTS_DIR/<output_file>.prompt: output file name -> file
    pending_files,  \* PROMPTS_DIR/<output_file>.pending: output file name -> file
    entry,          \* the submit implementation this requester process uses
    mode,           \* ClaudeCodeIntegrator.mode
    req,            \* the submit (request_generation or _call_claude) in progress
    req2,           \* the request_generation of a second requester process
    last_call,      \* the fulfiller operation that has just returned, and its result
    run,            \* SoftwareCopyrightOrchestrator.run: its position and exit status
    subst,          \* a replace_variables call: template, variables, return value
    expand,         \* an expand_document_template call: template, CLI outcome, return value
    watcher,        \* the AutoGenerator process: its position in run and process_pending_file
    fulfiller       \* a complete_request call in a fulfiller process: its position

fnVars == << html_code, verdict, fb_args, fb_html >>

protoVars == << request_file, process_dir, prompt_files, pending_files, entry, mode,
                req, req2, last_call >>

frontVars == << modules, software_name, module_files, front, stats >>

raceVars == << watcher, fulfiller >>

pipeVars == << run, subst, expand, raceVars >>

vars == << fnVars, protoVars, frontVars, pipeVars >>

\* _validate_html has not returned
NoVerdict == [ ok |-> FALSE, reason |-> "pending", detail |-> "" ]

\* _generate_html_template is not being called
NoArgs ==
    [ module_name |-> << >>, software_name |-> << >>,
      module_info |-> [ description |-> << >>, features |-> << >> ] ]

\* _generate_html_template has not returned (what it returns is never empty)
NoHtml == << >>

\* generate_frontend_code is not running
FrontIdle ==
    /\ modules = << >>
    /\ software_name = << >>
    /\ module_files = << >>
    /\ front = [ pc |-> "idle", i |-> 0, attempt |-> 0 ]
    /\ stats = << >>

\* VARIABLE_DEFINITIONS, src/main.py:67-108: the prompted keys, each with its
\* default (<< >> where the default is the empty string)
VARIABLE_DEFINITIONS ==
    [ software_name |-> << "DefaultName" >>,
      version |-> << "V1.0" >>,
      applicant |-> << >>,
      comp_date |-> << "2024.12.31" >>,
      industry |-> << >>,
      applicant_address |-> << >>,
      applicant_contact |-> << >>,
      applicant_phone |-> << >> ]

\* GENERATED_VARIABLES, src/main.py:111-117
GENERATED_VARIABLES ==
    { "module_count", "dev_purpose", "main_functions_summary", "main_functions_details",
      "line_count" }

VariableKeys == DOMAIN VARIABLE_DEFINITIONS \cup GENERATED_VARIABLES

\* a key that is not in the dict self.variables
Unset == << >>

\* self.variables = {} of SoftwareCopyrightOrchestrator.__init__
NoVariables == [ k \in VariableKeys |-> Unset ]

\* run has not been called; variables is self.variables (key -> Unset or the
\* value in << >>), writes counts the assignments to each key
NotRunning ==
    [ pc |-> "idle", status |-> -1, how |-> "none", srs |-> << >>, cli_failed |-> FALSE,
      variables |-> NoVariables, writes |-> [ k \in VariableKeys |-> 0 ],
      inputs_collected |-> FALSE ]

\* replace_variables is not being called
NoSubst == [ template |-> << >>, variables |-> << >>, result |-> << >>, done |-> FALSE ]

\* expand_document_template is not being called
NoExpand ==
    [ template |-> << >>, cli |-> "none", text |-> << >>, result |-> << >>,
      error |-> "none", done |-> FALSE ]

\* no AutoGenerator process
NoWatcher ==
    [ pc |-> "none", queue |-> << >>, file |-> "none", prompt |-> "none", waited |-> 0,
      ret |-> "none", error |-> << >> ]

\* no complete_request call in progress
NoFulfiller ==
    [ pc |-> "idle", content |-> << >>, output_file |-> "none", ret |-> "none",
      error |-> << >> ]

RaceIdle ==
    /\ watcher = NoWatcher
    /\ fulfiller = NoFulfiller

PipeIdle ==
    /\ run = NotRunning
    /\ subst = NoSubst
    /\ expand = NoExpand
    /\ RaceIdle

FnIdle ==
    /\ html_code = << >>
    /\ verdict = NoVerdict
    /\ fb_args = NoArgs
    /\ fb_html = NoHtml

(***************************************************************************)
(* Files.  A file is << >> when it does not exist and << text >> when it   *)
(* exists with that text (<< << >> >> is an existing file of size 0).      *)
(***************************************************************************)

NoFile == << >>

File(text) == << text >>

Exists(file) == file # NoFile

Content(file) == file[1]

\* Path.stat().st_size
Size(file) == StrLen(Content(file))

(***************************************************************************)
(* Generation Request Protocol                                             *)
(***************************************************************************)

\* the output file names used by the callers of _call_claude, src/main.py:301,412
OutNames == { "srs.json", "summary.txt" }

Prompts == { "prompt1", "prompt2" }

TaskTypes == { "srs", "html_code" }

Contexts == { "ctx" }

\* what a fulfiller writes: text of size 0, 1 and 2
Texts == { << >>, << "x" >>, << "x", "x" >> }

Modes == { "auto", "interactive", "cli" }

\* GenerationRequest.to_dict, src/ai_bridge.py:33-39
GenerationRequest(task_type, prompt, output_file, context) ==
    [ task_type |-> task_type, prompt |-> prompt, output_file |-> output_file,
      context |-> context ]

\* max_wait with the 600 seconds of the auto branch on every path
max_wait_600(via) == 600

\* src/ai_bridge.py:95, src/main.py:1434, src/main.py:1484
max_wait(via) == IF via = "interactive" THEN 300 ELSE 600

\* src/ai_bridge.py:97, src/main.py:1436, src/main.py:1486
check_interval(via) == IF via = "interactive" THEN 2 ELSE 1

\* consecutive loop iterations that find no output, taken as one step
SleepBatch == 150

NoResult == << >>

NoError == << >>

\* FileNotFoundError whose message carries the path PROCESS_DIR / output_file
FileNotFoundError(output_file) == << "FileNotFoundError", output_file >>

Idle ==
    [ pc |-> "idle", via |-> "none", output_file |-> "none", prompt |-> "none",
      waited |-> 0, result |-> NoResult, error |-> NoError, how |-> "none" ]

NoCall == [ op |-> "none", content |-> << >>, ret |-> FALSE ]

\* the submit has returned text to its caller
Returned(r, text, how) ==
    [ r EXCEPT !.pc = "returned", !.result = << text >>, !.how = how ]

\* the submit has raised an error
Raised(r, err, how) ==
    [ r EXCEPT !.pc = "failed", !.error = err, !.how = how ]

Polling(via, output_file, prompt) ==
    [ pc |-> "polling", via |-> via, output_file |-> output_file, prompt |-> prompt,
      waited |-> 0, result |-> NoResult, error |-> NoError, how |-> "none" ]

\* AIBridge.request_generation up to the polling loop
RequestGeneration(task_type, prompt, output_file, context) ==
    /\ entry = "request_generation"
    /\ req.pc # "polling"
    /\ request_file' = File(GenerationRequest(task_type, prompt, output_file, context))
    /\ req' = Polling("bridge", output_file, prompt)
    /\ last_call' = NoCall
    /\ UNCHANGED << process_dir, prompt_files, pending_files, entry, mode >>

\* _call_claude that writes the pending marker in every mode
CallClaudeAlwaysMarks(prompt, output_file) ==
    /\ entry = "_call_claude"
    /\ req.pc # "polling"
    /\ prompt_files' = [ prompt_files EXCEPT ![output_file] = File(prompt) ]
    /\ LET output == process_dir[output_file]
           via == IF mode = "auto" THEN "auto" ELSE "interactive"
       IN  IF Exists(output) /\ Size(output) > 0
           THEN /\ req' = Returned(Polling(via, output_file, prompt), Content(output),
                                   "existing")
                /\ UNCHANGED pending_files
           ELSE /\ req' = Polling(via, output_file, prompt)
                /\ pending_files' = [ pending_files EXCEPT ![output_file] = File(prompt) ]
    /\ last_call' = NoCall
    /\ UNCHANGED << request_file, process_dir, entry, mode >>

\* ClaudeCodeIntegrator._call_claude up to the polling loop
CallClaude(prompt, output_file) ==
    /\ entry = "_call_claude"
    /\ req.pc # "polling"
    /\ prompt_files' = [ prompt_files EXCEPT ![output_file] = File(prompt) ]
    /\ LET output == process_dir[output_file]
           via == IF mode = "auto" THEN "auto" ELSE "interactive"
       IN  IF Exists(output) /\ Size(output) > 0
           THEN /\ req' = Returned(Polling(via, output_file, prompt), Content(output),
                                   "existing")
                /\ UNCHANGED pending_files
           ELSE /\ req' = Polling(via, output_file, prompt)
                /\ pending_files' =
                       IF mode = "auto"
                       THEN [ pending_files EXCEPT ![output_file] = File(prompt) ]
                       ELSE pending_files
    /\ last_call' = NoCall
    /\ UNCHANGED << request_file, process_dir, entry, mode >>

\* CleanUp with the unlink calls left out
CleanUpNothing ==
    UNCHANGED << request_file, pending_files >>

\* the clean-up on detection: the request slot for request_generation, the
\* pending marker for _call_claude in auto mode, nothing in the interactive branch
CleanUp ==
    /\ request_file' = IF req.via = "bridge" THEN NoFile ELSE request_file
    /\ pending_files' = IF req.via = "auto"
                        THEN [ pending_files EXCEPT ![req.output_file] = NoFile ]
                        ELSE pending_files

\* one iteration of `while waited < max_wait`
Poll ==
    /\ req.pc = "polling"
    /\ req.waited < max_wait(req.via)
    /\ LET output == process_dir[req.output_file]
       IN  IF Exists(output) /\ Size(output) > 0
           THEN /\ CleanUp
                /\ req' = Returned(req, Content(output), "detected")
           ELSE /\ req' = [ req EXCEPT !.waited = @ + SleepBatch * check_interval(req.via) ]
                /\ UNCHANGED << request_file, pending_files >>
    /\ last_call' = NoCall
    /\ UNCHANGED << process_dir, prompt_files, entry, mode >>

\* WaitExceeded that raises without looking for the output file
WaitExceededAlwaysRaises ==
    /\ req.pc = "polling"
    /\ ~(req.waited < max_wait(req.via))
    /\ req' = Raised(req, FileNotFoundError(req.output_file), "timeout")
    /\ last_call' = NoCall
    /\ UNCHANGED << request_file, process_dir, prompt_files, pending_files, entry, mode >>

\* the code after the loop
WaitExceeded ==
    /\ req.pc = "polling"
    /\ ~(req.waited < max_wait(req.via))
    /\ LET output == process_dir[req.output_file]
       IN  IF ~Exists(output)
           THEN req' = Raised(req, FileNotFoundError(req.output_file), "timeout")
           ELSE req' = Returned(req, Content(output), "timeout")
    /\ last_call' = NoCall
    /\ UNCHANGED << request_file, process_dir, prompt_files, pending_files, entry, mode >>

\* Interrupt that returns only a non-empty output file
InterruptNeedsContent ==
    /\ req.pc = "polling"
    /\ LET output == process_dir[req.output_file]
       IN  IF Exists(output) /\ Size(output) > 0
           THEN /\ CleanUp
                /\ req' = Returned(req, Content(output), "interrupt")
           ELSE /\ req' = Raised(req, FileNotFoundError(req.output_file), "interrupt")
                /\ UNCHANGED << request_file, pending_files >>
    /\ last_call' = NoCall
    /\ UNCHANGED << process_dir, prompt_files, entry, mode >>

\* `except KeyboardInterrupt`
Interrupt ==
    /\ req.pc = "polling"
    /\ LET output == process_dir[req.output_file]
       IN  IF Exists(output)
           THEN /\ CleanUp
                /\ req' = Returned(req, Content(output), "interrupt")
           ELSE /\ req' = Raised(req, FileNotFoundError(req.output_file), "interrupt")
                /\ UNCHANGED << request_file, pending_files >>
    /\ last_call' = NoCall
    /\ UNCHANGED << process_dir, prompt_files, entry, mode >>

\* the keys GenerationRequest.from_dict reads with data[...], src/ai_bridge.py:41-48
RequiredKeys == { "task_type", "prompt", "output_file" }

\* text in the request slot that json.load rejects with JSONDecodeError
NotJson == [ not_json |-> TRUE ]

\* Loads that takes every JSON object for a descriptor
LoadsAnyObject(text) == "not_json" \notin DOMAIN text /\ "output_file" \in DOMAIN text

\* json.load and from_dict on the text of the slot, src/ai_bridge.py:136-141:
\* TRUE when a GenerationRequest comes out, FALSE on JSONDecodeError or KeyError
Loads(text) == "not_json" \notin DOMAIN text /\ RequiredKeys \subseteq DOMAIN text

\* AIBridge.check_request
check_request ==
    IF Exists(request_file) /\ Loads(Content(request_file)) THEN request_file ELSE NoFile

\* complete_request that leaves the request slot as it is
CompleteRequestKeepsSlot(content) ==
    LET request == check_request
    IN  /\ IF request # NoFile
           THEN /\ process_dir' =
                       [ process_dir EXCEPT ![Content(request).output_file] = File(content) ]
                /\ last_call' = [ op |-> "complete_request", content |-> content,
                                  ret |-> TRUE ]
           ELSE /\ last_call' = [ op |-> "complete_request", content |-> content,
                                  ret |-> FALSE ]
                /\ UNCHANGED process_dir
        /\ UNCHANGED << request_file, prompt_files, pending_files, entry, mode, req >>

\* AIBridge.complete_request
CompleteRequest(content) ==
    LET request == check_request
    IN  /\ IF request # NoFile
           THEN /\ process_dir' =
                       [ process_dir EXCEPT ![Content(request).output_file] = File(content) ]
                /\ request_file' = NoFile
                /\ last_call' = [ op |-> "complete_request", content |-> content,
                                  ret |-> TRUE ]
           ELSE /\ last_call' = [ op |-> "complete_request", content |-> content,
                                  ret |-> FALSE ]
                /\ UNCHANGED << process_dir, request_file >>
        /\ UNCHANGED << prompt_files, pending_files, entry, mode, req >>

\* an external fulfiller opens an output file for writing
WriterOpen(output_file) ==
    /\ process_dir' = [ process_dir EXCEPT ![output_file] = File(<< >>) ]
    /\ process_dir' # process_dir
    /\ last_call' = NoCall
    /\ UNCHANGED << request_file, prompt_files, pending_files, entry, mode, req >>

\* an external fulfiller writes text to the output file it has opened
WriterFill(output_file, text) ==
    /\ process_dir[output_file] = File(<< >>)
    /\ text # << >>
    /\ process_dir' = [ process_dir EXCEPT ![output_file] = File(text) ]
    /\ last_call' = NoCall
    /\ UNCHANGED << request_file, prompt_files, pending_files, entry, mode, req >>

ProtoIdle ==
    /\ request_file = NoFile
    /\ process_dir = [ f \in OutNames |-> NoFile ]
    /\ prompt_files = [ f \in OutNames |-> NoFile ]
    /\ pending_files = [ f \in OutNames |-> NoFile ]
    /\ req = Idle
    /\ req2 = Idle
    /\ last_call = NoCall

\* main.py submits with _call_claude in the mode of the --mode flag; a requester
\* built on AIBridge submits with request_generation, which has no mode
Init ==
    /\ FnIdle
    /\ FrontIdle
    /\ ProtoIdle
    /\ PipeIdle
    /\ \/ entry = "_call_claude" /\ mode \in Modes
       \/ entry = "request_generation" /\ mode = "auto"

\* _call_claude that writes the pending marker in auto mode before it looks
\* for an existing output file
CallClaudeMarksFirst(prompt, output_file) ==
    /\ entry = "_call_claude"
    /\ req.pc # "polling"
    /\ prompt_files' = [ prompt_files EXCEPT ![output_file] = File(prompt) ]
    /\ pending_files' = IF mode = "auto"
                        THEN [ pending_files EXCEPT ![output_file] = File(prompt) ]
                        ELSE pending_files
    /\ LET output == process_dir[output_file]
           via == IF mode = "auto" THEN "auto" ELSE "interactive"
       IN  IF Exists(output) /\ Size(output) > 0
           THEN req' = Returned(Polling(via, output_file, prompt), Content(output),
                                "existing")
           ELSE req' = Polling(via, output_file, prompt)
    /\ last_call' = NoCall
    /\ UNCHANGED << request_file, process_dir, entry, mode >>

\* Submit with that _call_claude
SubmitMarksFirst ==
    \/ \E t \in TaskTypes, p \in Prompts, f \in OutNames, c \in Contexts :
           RequestGeneration(t, p, f, c)
    \/ \E p \in Prompts, f \in OutNames : CallClaudeMarksFirst(p, f)

Submit ==
    \/ \E t \in TaskTypes, p \in Prompts, f \in OutNames, c \in Contexts :
           RequestGeneration(t, p, f, c)
    \/ \E p \in Prompts, f \in OutNames : CallClaude(p, f)

Fulfil ==
    \/ \E f \in OutNames : WriterOpen(f)
    \/ \E f \in OutNames, text \in Texts : WriterFill(f, text)
    \/ \E text \in Texts : CompleteRequest(text)

Next ==
    \/ (Submit /\ UNCHANGED << fnVars, frontVars, pipeVars, req2 >>)
    \/ (Poll /\ UNCHANGED << fnVars, frontVars, pipeVars, req2 >>)
    \/ (WaitExceeded /\ UNCHANGED << fnVars, frontVars, pipeVars, req2 >>)
    \/ (Interrupt /\ UNCHANGED << fnVars, frontVars, pipeVars, req2 >>)
    \/ (Fulfil /\ UNCHANGED << fnVars, frontVars, pipeVars, req2 >>)

Spec == Init /\ [][Next]_vars

(***************************************************************************)
(* SpecNoOutput: the requester alone, no fulfiller ever creates an output  *)
(* file.  The polling loop is a loop of one thread, so it keeps running.   *)
(***************************************************************************)

NextNoOutput ==
    \/ (Submit /\ UNCHANGED << fnVars, frontVars, pipeVars, req2 >>)
    \/ (Poll /\ UNCHANGED << fnVars, frontVars, pipeVars, req2 >>)
    \/ (WaitExceeded /\ UNCHANGED << fnVars, frontVars, pipeVars, req2 >>)
    \/ (Interrupt /\ UNCHANGED << fnVars, frontVars, pipeVars, req2 >>)

SpecNoOutput ==
    Init /\ [][NextNoOutput]_vars /\ WF_vars((Poll \/ WaitExceeded) /\ UNCHANGED << fnVars, frontVars, pipeVars, req2 >>)

(***************************************************************************)
(* SpecTwo: two requester processes call request_generation on the same    *)
(* request slot, and a fulfiller calls complete_request                    *)
(***************************************************************************)

\* request_generation that leaves a descriptor it finds in the slot
SecondRequestGenerationKeepsFirst(task_type, prompt, output_file, context) ==
    /\ req2.pc = "idle"
    /\ request_file' =
           IF Exists(request_file) THEN request_file
           ELSE File(GenerationRequest(task_type, prompt, output_file, context))
    /\ req2' = Polling("bridge", output_file, prompt)
    /\ last_call' = NoCall
    /\ UNCHANGED << process_dir, prompt_files, pending_files, entry, mode, req >>

\* AIBridge.request_generation of the second requester, up to the polling loop
SecondRequestGeneration(task_type, prompt, output_file, context) ==
    /\ req2.pc = "idle"
    /\ request_file' = File(GenerationRequest(task_type, prompt, output_file, context))
    /\ req2' = Polling("bridge", output_file, prompt)
    /\ last_call' = NoCall
    /\ UNCHANGED << process_dir, prompt_files, pending_files, entry, mode, req >>

\* one iteration of its `while waited < max_wait`, src/ai_bridge.py:100-113
SecondPoll ==
    /\ req2.pc = "polling"
    /\ req2.waited < max_wait(req2.via)
    /\ LET output == process_dir[req2.output_file]
       IN  IF Exists(output) /\ Size(output) > 0
           THEN /\ request_file' = NoFile
                /\ req2' = Returned(req2, Content(output), "detected")
           ELSE /\ req2' = [ req2 EXCEPT !.waited = @ + SleepBatch * check_interval(req2.via) ]
                /\ UNCHANGED request_file
    /\ last_call' = NoCall
    /\ UNCHANGED << process_dir, prompt_files, pending_files, entry, mode, req >>

\* the code after its loop, src/ai_bridge.py:115-122
SecondWaitExceeded ==
    /\ req2.pc = "polling"
    /\ ~(req2.waited < max_wait(req2.via))
    /\ LET output == process_dir[req2.output_file]
       IN  IF ~Exists(output)
           THEN req2' = Raised(req2, FileNotFoundError(req2.output_file), "timeout")
           ELSE req2' = Returned(req2, Content(output), "timeout")
    /\ last_call' = NoCall
    /\ UNCHANGED << request_file, process_dir, prompt_files, pending_files, entry, mode,
                    req >>

\* its `except KeyboardInterrupt`, src/ai_bridge.py:124-131
SecondInterrupt ==
    /\ req2.pc = "polling"
    /\ LET output == process_dir[req2.output_file]
       IN  IF Exists(output)
           THEN /\ request_file' = NoFile
                /\ req2' = Returned(req2, Content(output), "interrupt")
           ELSE /\ req2' = Raised(req2, FileNotFoundError(req2.output_file), "interrupt")
                /\ UNCHANGED request_file
    /\ last_call' = NoCall
    /\ UNCHANGED << process_dir, prompt_files, pending_files, entry, mode, req >>

InitTwo ==
    /\ FnIdle
    /\ FrontIdle
    /\ ProtoIdle
    /\ PipeIdle
    /\ entry = "request_generation"
    /\ mode = "auto"

\* each requester process makes one request
NextTwo ==
    \/ /\ req.pc = "idle"
       /\ \E t \in TaskTypes, p \in Prompts, f \in OutNames, c \in Contexts :
              RequestGeneration(t, p, f, c)
       /\ UNCHANGED << fnVars, frontVars, pipeVars, req2 >>
    \/ (Poll /\ UNCHANGED << fnVars, frontVars, pipeVars, req2 >>)
    \/ (WaitExceeded /\ UNCHANGED << fnVars, frontVars, pipeVars, req2 >>)
    \/ (Interrupt /\ UNCHANGED << fnVars, frontVars, pipeVars, req2 >>)
    \/ /\ \E t \in TaskTypes, p \in Prompts, f \in OutNames, c \in Contexts :
              SecondRequestGeneration(t, p, f, c)
       /\ UNCHANGED << fnVars, frontVars, pipeVars >>
    \/ (SecondPoll /\ UNCHANGED << fnVars, frontVars, pipeVars >>)
    \/ (SecondWaitExceeded /\ UNCHANGED << fnVars, frontVars, pipeVars >>)
    \/ (SecondInterrupt /\ UNCHANGED << fnVars, frontVars, pipeVars >>)
    \/ /\ \E text \in Texts : CompleteRequest(text)
       /\ UNCHANGED << fnVars, frontVars, pipeVars, req2 >>

SpecTwo == InitTwo /\ [][NextTwo]_vars

(***************************************************************************)
(* Inputs of the pure functions                                            *)
(***************************************************************************)

\* the subsequence of s at the positions in mask
RECURSIVE Pick(_, _, _)
Pick(s, mask, i) ==
    IF i > Len(s) THEN << >>
    ELSE (IF i \in mask THEN << s[i] >> ELSE << >>) \o Pick(s, mask, i + 1)

RECURSIVE Repeat(_, _)
Repeat(t, n) == IF n = 0 THEN << >> ELSE << t >> \o Repeat(t, n - 1)

\* documents are drawn as subsequences of this one, followed by at most one
\* phrase and by padding characters
MasterDoc ==
    << "<HTML>", "<html>", "<head>", "<header>", "<style>", "<STYLE>",
       "<body>", "Text967", "</html>" >>

MaxPad == 2

Phrases == PatternSet \cup { "the page includes:" }

HtmlInputs ==
    { Pick(MasterDoc, mask, 1) \o ph \o Repeat("x", n) :
        mask \in SUBSET (1..Len(MasterDoc)),
        ph \in { << >> } \cup { << p >> : p \in Phrases },
        n \in 0..MaxPad }

MaxNameLen == 2

NameWords == Keywords \cup { "yonghu", "**Structure:**" }

RECURSIVE SeqsUpTo(_, _)
SeqsUpTo(S, n) ==
    IF n = 0 THEN { << >> }
    ELSE LET shorter == SeqsUpTo(S, n - 1)
         IN  shorter \cup { Append(q, x) : q \in shorter, x \in S }

ModuleNames == SeqsUpTo(NameWords, MaxNameLen)

SoftwareNames == { << "yonghu", "xitong" >>, << "This is a production-ready" >> }

Descriptions == { << >>, << "x" >>, << "The page includes:" >> }

MaxFeatures == 2

FeatureTexts == { << "x" >>, << "**Code Details:**" >> }

FeatureLists == SeqsUpTo(FeatureTexts, MaxFeatures)

ModuleInfos == [ description : Descriptions, features : FeatureLists ]

(***************************************************************************)
(* SpecValidate: _validate_html applied to every document of HtmlInputs    *)
(***************************************************************************)

InitValidate ==
    /\ html_code \in HtmlInputs
    /\ verdict = NoVerdict
    /\ fb_args = NoArgs
    /\ fb_html = NoHtml
    /\ ProtoIdle
    /\ PipeIdle
    /\ FrontIdle
    /\ entry = "_call_claude"
    /\ mode = "auto"

ValidateHtml ==
    /\ verdict = NoVerdict
    /\ verdict' = validate_html(html_code)
    /\ UNCHANGED << html_code, fb_args, fb_html, protoVars, frontVars, pipeVars >>

NextValidate == ValidateHtml

SpecValidate == InitValidate /\ [][NextValidate]_vars

(***************************************************************************)
(* SpecFallback: _generate_html_template applied to every input, and       *)
(* _validate_html applied to what it returns                               *)
(***************************************************************************)

InitFallback ==
    /\ fb_args \in [ module_name : ModuleNames, software_name : SoftwareNames,
                     module_info : ModuleInfos ]
    /\ fb_html = NoHtml
    /\ html_code = << >>
    /\ verdict = NoVerdict
    /\ ProtoIdle
    /\ PipeIdle
    /\ FrontIdle
    /\ entry = "_call_claude"
    /\ mode = "auto"

GenerateHtmlTemplate ==
    /\ fb_html = NoHtml
    /\ fb_html' = generate_html_template(fb_args.module_name, fb_args.software_name,
                                         fb_args.module_info)
    /\ UNCHANGED << html_code, verdict, fb_args, protoVars, frontVars, pipeVars >>

ValidateFallback ==
    /\ fb_html # NoHtml
    /\ verdict = NoVerdict
    /\ html_code' = fb_html
    /\ verdict' = validate_html(fb_html)
    /\ UNCHANGED << fb_args, fb_html, protoVars, frontVars, pipeVars >>

NextFallback == GenerateHtmlTemplate \/ ValidateFallback

SpecFallback == InitFallback /\ [][NextFallback]_vars

(***************************************************************************)
(* SpecFrontend: SoftwareCopyrightOrchestrator.generate_frontend_code      *)
(***************************************************************************)

\* src/main.py:26-30: ai_bridge.py is part of the repository, the import succeeds
AI_BRIDGE_AVAILABLE == TRUE

\* src/main.py:1648
max_retries == 3

MaxModules == 2

\* a document that passes _validate_html, 1015 characters
GoodDoc ==
    << "<!DOCTYPE html>", "<html>", "<head>", "<style>", "<body>", "Text967", "x",
       "</html>" >>

\* a complete document of 32 characters
ShortDoc == << "<html>", "<head>", "<style>", "<body>", "</html>" >>

\* what the claude CLI call of generate_html_code_auto can come to:
\*   error  call_claude_cli raises RuntimeError (exit status, timeout, no executable)
\*   crash  the response has no text in its result field, an AttributeError
\*   text   the text of the response
CliOutcomes ==
    { [ kind |-> "error", text |-> << >> ],
      [ kind |-> "crash", text |-> << >> ],
      [ kind |-> "text", text |-> GoodDoc ],
      [ kind |-> "text", text |-> ShortDoc ],
      [ kind |-> "text", text |-> << "I've created a complete" >> \o GoodDoc ],
      [ kind |-> "text", text |-> GoodDoc \o << "**Design Features:**" >> ],
      [ kind |-> "text", text |-> << "Here's what's included:" >> ] }

\* the modules of a requirements breakdown: one with a name only, one with a
\* description and a feature, one whose description quotes a listed phrase
Modules ==
    { [ name |-> << "yonghu" >>, description |-> << >>, features |-> << >> ],
      [ name |-> << "paidui" >>, description |-> << "x", "x" >>,
        features |-> << << "x" >> >> ],
      [ name |-> << "yonghu", "guanli" >>, description |-> << "The page includes:" >>,
        features |-> << >> ] }

\* variables["software_name"] of the run
FrontSoftwareNames == { << "x" >> }

\* files left in PROCESS_DIR by an earlier run
OldFiles ==
    { NoFile, File(<< >>), File(GoodDoc), File(ShortDoc) }

ModuleInfo(module) == [ description |-> module.description, features |-> module.features ]

\* ClaudeCodeIntegrator._generate_html_auto with generate_html_code_auto
generate_html_auto(module, cli) ==
    IF cli.kind = "crash"
    THEN [ html |-> generate_html_template(module.name, software_name, ModuleInfo(module)),
           by |-> "template" ]
    ELSE IF cli.kind = "text" /\ html_from_cli(cli.text) # << >>
    THEN [ html |-> html_from_cli(cli.text), by |-> "cli" ]
    ELSE [ html |-> generate_html_fallback(module.name, software_name, ModuleInfo(module)),
           by |-> "cli fallback" ]

\* ClaudeCodeIntegrator.generate_html_code
generate_html_code(i, module, cli) ==
    IF Exists(module_files[i]) /\ Size(module_files[i]) > 0
    THEN [ html |-> Content(module_files[i]), by |-> "existing" ]
    ELSE IF AI_BRIDGE_AVAILABLE /\ mode = "auto"
    THEN generate_html_auto(module, cli)
    ELSE [ html |-> generate_html_template(module.name, software_name, ModuleInfo(module)),
           by |-> "template" ]

NoStats ==
    [ calls |-> 0, rejected |-> 0, template_in_attempt |-> FALSE, fallback |-> FALSE,
      saved |-> FALSE ]

\* the loop goes on to the next module, or ends
NextModule ==
    IF front.i < Len(modules)
    THEN [ pc |-> "loop", i |-> front.i + 1, attempt |-> 0 ]
    ELSE [ pc |-> "done", i |-> front.i, attempt |-> 0 ]

\* Attempt that does not fall back when the last attempt is rejected
AttemptNoFallback(cli) ==
    /\ front.pc = "loop"
    /\ LET i == front.i
           module == modules[i]
           gen == generate_html_code(i, module, cli)
           v == validate_html(gen.html)
           st == [ stats[i] EXCEPT !.calls = @ + 1,
                                   !.rejected = IF v.ok THEN @ ELSE @ + 1,
                                   !.template_in_attempt = @ \/ gen.by = "template" ]
       IN  IF v.ok
           THEN /\ module_files' = [ module_files EXCEPT ![i] = File(gen.html) ]
                /\ stats' = [ stats EXCEPT ![i] = [ st EXCEPT !.saved = TRUE ] ]
                /\ front' = NextModule
           ELSE IF front.attempt < max_retries - 1
           THEN /\ module_files' = [ module_files EXCEPT ![i] = NoFile ]
                /\ stats' = [ stats EXCEPT ![i] = st ]
                /\ front' = [ front EXCEPT !.attempt = @ + 1 ]
           ELSE /\ UNCHANGED module_files
                /\ stats' = [ stats EXCEPT ![i] = st ]
                /\ front' = NextModule
    /\ UNCHANGED << modules, software_name, fnVars, protoVars, pipeVars >>

\* one pass of `for attempt in range(max_retries)`, src/main.py:1649-1695
Attempt(cli) ==
    /\ front.pc = "loop"
    /\ LET i == front.i
           module == modules[i]
           gen == generate_html_code(i, module, cli)
           v == validate_html(gen.html)
           st == [ stats[i] EXCEPT !.calls = @ + 1,
                                   !.rejected = IF v.ok THEN @ ELSE @ + 1,
                                   !.template_in_attempt = @ \/ gen.by = "template" ]
       IN  IF v.ok
           THEN /\ module_files' = [ module_files EXCEPT ![i] = File(gen.html) ]
                /\ stats' = [ stats EXCEPT ![i] = [ st EXCEPT !.saved = TRUE ] ]
                /\ front' = NextModule
           ELSE IF front.attempt < max_retries - 1
           THEN /\ module_files' = [ module_files EXCEPT ![i] = NoFile ]
                /\ stats' = [ stats EXCEPT ![i] = st ]
                /\ front' = [ front EXCEPT !.attempt = @ + 1 ]
           ELSE /\ module_files' =
                       [ module_files EXCEPT ![i] =
                           File(generate_html_template(module.name, software_name,
                                                       ModuleInfo(module))) ]
                /\ stats' = [ stats EXCEPT ![i] = [ st EXCEPT !.fallback = TRUE ] ]
                /\ front' = NextModule
    /\ UNCHANGED << modules, software_name, fnVars, protoVars, pipeVars >>

InitFrontend ==
    /\ FnIdle
    /\ ProtoIdle
    /\ PipeIdle
    /\ entry = "_call_claude"
    /\ mode \in Modes
    /\ modules \in SeqsUpTo(Modules, MaxModules)
    /\ software_name \in FrontSoftwareNames
    /\ module_files \in [ 1..Len(modules) -> OldFiles ]
    /\ front = [ pc |-> IF modules = << >> THEN "done" ELSE "loop",
                 i |-> IF modules = << >> THEN 0 ELSE 1, attempt |-> 0 ]
    /\ stats = [ i \in 1..Len(modules) |-> NoStats ]

\* a pass of the retry loop that leaves a rejected file in PROCESS_DIR
AttemptKeepsRejectedFile(cli) ==
    /\ front.pc = "loop"
    /\ LET i == front.i
           module == modules[i]
           gen == generate_html_code(i, module, cli)
           v == validate_html(gen.html)
           st == [ stats[i] EXCEPT !.calls = @ + 1,
                                   !.rejected = IF v.ok THEN @ ELSE @ + 1,
                                   !.template_in_attempt = @ \/ gen.by = "template" ]
       IN  IF v.ok
           THEN /\ module_files' = [ module_files EXCEPT ![i] = File(gen.html) ]
                /\ stats' = [ stats EXCEPT ![i] = [ st EXCEPT !.saved = TRUE ] ]
                /\ front' = NextModule
           ELSE IF front.attempt < max_retries - 1
           THEN /\ UNCHANGED module_files
                /\ stats' = [ stats EXCEPT ![i] = st ]
                /\ front' = [ front EXCEPT !.attempt = @ + 1 ]
           ELSE /\ module_files' =
                       [ module_files EXCEPT ![i] =
                           File(generate_html_template(module.name, software_name,
                                                       ModuleInfo(module))) ]
                /\ stats' = [ stats EXCEPT ![i] = [ st EXCEPT !.fallback = TRUE ] ]
                /\ front' = NextModule
    /\ UNCHANGED << modules, software_name, fnVars, protoVars, pipeVars >>

\* the retry loop made of such passes
NextFrontendKeepingFiles == \E cli \in CliOutcomes : AttemptKeepsRejectedFile(cli)

NextFrontend == \E cli \in CliOutcomes : Attempt(cli)

SpecFrontend == InitFrontend /\ [][NextFrontend]_vars

(***************************************************************************)
(* SpecRun: SoftwareCopyrightOrchestrator.run, from its first statement to *)
(* the exit of the process                                                 *)
(***************************************************************************)

\* the module list that the text JsonModules is the JSON of
SrsModules ==
    << [ name |-> << "yonghu" >>, description |-> << "x" >>, features |-> << >> ] >>

\* the module list that the text JsonModules3 is the JSON of
SrsModules3 ==
    << [ name |-> << "yonghu" >>, description |-> << "x" >>, features |-> << >> ],
       [ name |-> << "paidui" >>, description |-> << "x" >>, features |-> << >> ],
       [ name |-> << "guanli" >>, description |-> << "x" >>, features |-> << >> ] >>

\* the tokens that are the text of a JSON array of modules
JsonArrays == { "JsonModules", "JsonModules3" }

\* the list a JSON array of modules is parsed to
json_value(token) == IF token = "JsonModules3" THEN SrsModules3 ELSE SrsModules

\* json.dump of a module list, src/main.py:1630-1632
json_dump(module_list) ==
    IF module_list = SrsModules3 THEN << "JsonModules3" >> ELSE << "JsonModules" >>

\* texts of a requirements breakdown (FenceJson and Fence are the markers that
\* open and close a fenced json block): a JSON array of one module or of three
\* alone, the array in a fenced block after other text, text without JSON, a
\* fenced block that is not JSON, and a JSON object that is not a list of modules
SrsTexts ==
    { << "JsonModules" >>,
      << "JsonModules3" >>,
      << "Chatter", "FenceJson", "JsonModules", "Fence" >>,
      << "Chatter" >>,
      << "FenceJson", "Broken", "Fence" >>,
      << "JsonObject" >> }

\* json.loads: the text is one JSON value
json_loads(text) ==
    IF Len(text) = 1 /\ text[1] \in JsonArrays
    THEN [ ok |-> TRUE, value |-> "list", items |-> json_value(text[1]) ]
    ELSE IF text = << "JsonObject" >>
    THEN [ ok |-> TRUE, value |-> "object", items |-> << >> ]
    ELSE [ ok |-> FALSE, value |-> "none", items |-> << >> ]

\* the re.search for a fenced json block, src/main.py:1619: the text between
\* the first FenceJson marker and the next Fence marker, in << >>, or << >>
\* when there is no match
fenced_block(text) ==
    LET opens == { i \in 1..Len(text) : text[i] = "FenceJson" }
        first == CHOOSE i \in opens : \A k \in opens : i <= k
        closes == IF opens = {} THEN {}
                  ELSE { j \in (first + 1)..Len(text) : text[j] = "Fence" }
        close == CHOOSE j \in closes : \A k \in closes : j <= k
    IN  IF closes = {} THEN << >> ELSE << SubSeq(text, first + 1, close - 1) >>

\* parse_srs that gives up when json.loads fails on the whole text
parse_srs_whole_text_only(srs_json) ==
    LET whole == json_loads(srs_json)
    IN  IF whole.ok
        THEN (IF whole.value = "list"
              THEN [ ok |-> TRUE, modules |-> whole.items, error |-> "" ]
              ELSE [ ok |-> FALSE, modules |-> << >>, error |-> "AttributeError" ])
        ELSE [ ok |-> FALSE, modules |-> << >>, error |-> "ValueError" ]

\* SoftwareCopyrightOrchestrator.generate_srs from json.loads to the loop that
\* prints the modules, src/main.py:1615-1627
parse_srs(srs_json) ==
    LET whole == json_loads(srs_json)
        block == fenced_block(srs_json)
        parsed == IF whole.ok THEN whole
                  ELSE IF block # << >> THEN json_loads(block[1])
                  ELSE [ ok |-> FALSE, value |-> "no block", items |-> << >> ]
    IN  IF parsed.ok /\ parsed.value = "list"
        THEN [ ok |-> TRUE, modules |-> parsed.items, error |-> "" ]
        ELSE IF parsed.ok
        THEN [ ok |-> FALSE, modules |-> << >>, error |-> "AttributeError" ]
        ELSE IF parsed.value = "no block"
        THEN [ ok |-> FALSE, modules |-> << >>, error |-> "ValueError" ]
        ELSE [ ok |-> FALSE, modules |-> << >>, error |-> "JSONDecodeError" ]

\* generate_srs_auto on the text of the CLI response, src/ai_bridge.py:252-281:
\* code fence markers at either end are removed; the text itself if it starts
\* with [ and ends with ], else the span from the first [{ to the last }],
\* else the text
srs_from_cli(result) ==
    LET a == IF result # << >> /\ Head(result) \in { "FenceJson", "Fence" }
             THEN Tail(result) ELSE result
        b == IF a # << >> /\ a[Len(a)] = "Fence" THEN SubSeq(a, 1, Len(a) - 1) ELSE a
        arrays == { i \in 1..Len(b) : b[i] \in JsonArrays }
        lo == CHOOSE i \in arrays : \A k \in arrays : i <= k
        hi == CHOOSE i \in arrays : \A k \in arrays : i >= k
    IN  IF arrays = {} THEN b ELSE SubSeq(b, lo, hi)

\* what the claude CLI call of generate_srs_auto can come to
SrsCliOutcomes ==
    { [ kind |-> "error", text |-> << >> ] }
        \cup { [ kind |-> "text", text |-> t ] : t \in SrsTexts }

Exited(status, how) == [ run EXCEPT !.pc = "exited", !.status = status, !.how = how ]

InitRun ==
    /\ FnIdle
    /\ ProtoIdle
    /\ entry = "_call_claude"
    /\ mode \in Modes
    /\ modules = << >>
    /\ software_name = << "x" >>
    /\ module_files = << >>
    /\ front = [ pc |-> "idle", i |-> 0, attempt |-> 0 ]
    /\ stats = << >>
    /\ run = [ NotRunning EXCEPT !.pc = "main" ]
    /\ subst = NoSubst
    /\ expand = NoExpand
    /\ RaceIdle

\* self.variables[key] = values[key] for every key of values, in r
Assign(r, values) ==
    [ r EXCEPT !.variables = [ k \in VariableKeys |->
                                 IF k \in DOMAIN values THEN << values[k] >> ELSE @[k] ],
               !.writes = [ k \in VariableKeys |->
                              IF k \in DOMAIN values THEN @[k] + 1 ELSE @[k] ] ]

\* main from the construction of the orchestrator to the call of run,
\* src/main.py:2016-2024: with --skip-inputs every prompted key gets its default
Main(skip_inputs) ==
    /\ run.pc = "main"
    /\ run' = IF skip_inputs
              THEN [ Assign(run, VARIABLE_DEFINITIONS) EXCEPT !.pc = "start",
                                                              !.inputs_collected = TRUE ]
              ELSE [ run EXCEPT !.pc = "start" ]
    /\ UNCHANGED << fnVars, protoVars, frontVars, subst, expand, raceVars >>

\* run up to its try statement, src/main.py:1912-1922
EnterTry ==
    /\ run.pc = "start"
    /\ run' = [ run EXCEPT !.pc = "inputs" ]
    /\ UNCHANGED << fnVars, protoVars, frontVars, subst, expand, raceVars >>

\* what the operator types at the prompts of collect_user_inputs: nothing at
\* any prompt, or a text at every prompt
Answers ==
    { [ k \in DOMAIN VARIABLE_DEFINITIONS |-> << >> ],
      [ k \in DOMAIN VARIABLE_DEFINITIONS |-> << "typed" >> ] }

MaxModuleCount == 3

\* the module counts collect_user_inputs accepts: 3 and more, 10 when nothing
\* is typed, src/main.py:1578-1601
ModuleCounts == (3..MaxModuleCount) \cup { 10 }

\* the values collect_user_inputs stores: the answer, or the default when the
\* answer is empty, and the module count
collected(answers, module_count) ==
    [ k \in DOMAIN VARIABLE_DEFINITIONS \cup { "module_count" } |->
        IF k = "module_count" THEN module_count
        ELSE IF answers[k] # << >> THEN answers[k]
        ELSE VARIABLE_DEFINITIONS[k] ]

\* CollectInputs that prompts even when the inputs are already set
CollectInputsAlways ==
    /\ run.pc = "inputs"
    /\ \E answers \in Answers, module_count \in ModuleCounts :
           run' = [ Assign(run, collected(answers, module_count)) EXCEPT !.pc = "srs" ]
    /\ UNCHANGED << fnVars, protoVars, frontVars, subst, expand, raceVars >>

\* Step 1, src/main.py:1925-1933, with collect_user_inputs, src/main.py:1537-1601
CollectInputs ==
    /\ run.pc = "inputs"
    /\ IF run.inputs_collected
       THEN run' = [ run EXCEPT !.pc = "srs" ]
       ELSE \E answers \in Answers, module_count \in ModuleCounts :
                run' = [ Assign(run, collected(answers, module_count)) EXCEPT !.pc = "srs" ]
    /\ UNCHANGED << fnVars, protoVars, frontVars, subst, expand, raceVars >>

\* module_count of generate_srs, src/main.py:1607
requested_module_count ==
    IF run.variables["module_count"] = Unset THEN 10 ELSE run.variables["module_count"][1]

\* ClaudeCodeIntegrator.generate_srs up to the CLI call or to the polling loop
\* of _call_claude, src/main.py:247-255, 301
SrsBegin ==
    /\ run.pc = "srs"
    /\ LET output == process_dir["srs.json"]
       IN  IF Exists(output) /\ Size(output) > 0
           THEN /\ run' = [ run EXCEPT !.pc = "parse", !.srs = Content(output) ]
                /\ UNCHANGED protoVars
           ELSE IF AI_BRIDGE_AVAILABLE /\ mode = "auto"
           THEN /\ run' = [ run EXCEPT !.pc = "srs_cli" ]
                /\ UNCHANGED protoVars
           ELSE /\ CallClaude("prompt1", "srs.json")
                /\ run' = [ run EXCEPT !.pc = "srs_wait" ]
                /\ UNCHANGED req2
    /\ UNCHANGED << fnVars, frontVars, subst, expand, raceVars >>


\* SrsCli in which a failed CLI call ends the run
SrsCliFailureIsFatal(cli) ==
    /\ run.pc = "srs_cli"
    /\ IF cli.kind = "error"
       THEN /\ run' = [ Exited(1, "error") EXCEPT !.cli_failed = TRUE ]
            /\ UNCHANGED protoVars
       ELSE /\ process_dir' = [ process_dir EXCEPT !["srs.json"] =
                                    File(srs_from_cli(cli.text)) ]
            /\ run' = [ run EXCEPT !.pc = "parse", !.srs = srs_from_cli(cli.text) ]
            /\ last_call' = NoCall
            /\ UNCHANGED << request_file, prompt_files, pending_files, entry, mode, req,
                            req2 >>
    /\ UNCHANGED << fnVars, frontVars, subst, expand, raceVars >>

\* the auto branch of ClaudeCodeIntegrator.generate_srs, src/main.py:255-266, 301:
\* the text from generate_srs_auto is saved and returned; any exception of the
\* CLI call is caught and _call_claude is called instead
SrsCli(cli) ==
    /\ run.pc = "srs_cli"
    /\ IF cli.kind = "error"
       THEN /\ CallClaude("prompt1", "srs.json")
            /\ run' = [ run EXCEPT !.pc = "srs_wait", !.cli_failed = TRUE ]
            /\ UNCHANGED req2
       ELSE /\ process_dir' = [ process_dir EXCEPT !["srs.json"] =
                                    File(srs_from_cli(cli.text)) ]
            /\ run' = [ run EXCEPT !.pc = "parse", !.srs = srs_from_cli(cli.text) ]
            /\ last_call' = NoCall
            /\ UNCHANGED << request_file, prompt_files, pending_files, entry, mode, req,
                            req2 >>
    /\ UNCHANGED << fnVars, frontVars, subst, expand, raceVars >>

\* the polling loop of _call_claude("srs.json") and its KeyboardInterrupt handler
SrsWait ==
    /\ run.pc = "srs_wait"
    /\ Poll \/ WaitExceeded \/ Interrupt
    /\ UNCHANGED << fnVars, frontVars, req2, pipeVars >>

\* an external agent writes srs.json while the request is outstanding
SrsFulfil ==
    /\ run.pc = "srs_wait"
    /\ req.pc = "polling"
    /\ \/ WriterOpen("srs.json")
       \/ \E text \in SrsTexts : WriterFill("srs.json", text)
    /\ UNCHANGED << fnVars, frontVars, req2, pipeVars >>

\* SrsReturn in which an interrupted wait without output ends the run with status 0
SrsReturnInterruptExitsZero ==
    /\ run.pc = "srs_wait"
    /\ req.pc \in { "returned", "failed" }
    /\ run' = IF req.pc = "returned"
              THEN [ run EXCEPT !.pc = "parse", !.srs = req.result[1] ]
              ELSE IF req.how = "interrupt" THEN Exited(0, "interrupt in wait")
              ELSE Exited(1, "error")
    /\ UNCHANGED << fnVars, protoVars, frontVars, subst, expand, raceVars >>

\* _call_claude("srs.json") returns to generate_srs, or its FileNotFoundError
\* reaches `except Exception` of run, src/main.py:1984-1988
SrsReturn ==
    /\ run.pc = "srs_wait"
    /\ req.pc \in { "returned", "failed" }
    /\ run' = IF req.pc = "returned"
              THEN [ run EXCEPT !.pc = "parse", !.srs = req.result[1] ]
              ELSE IF req.how = "interrupt" THEN Exited(1, "interrupt in wait")
              ELSE Exited(1, "error")
    /\ UNCHANGED << fnVars, protoVars, frontVars, subst, expand, raceVars >>

\* SoftwareCopyrightOrchestrator.generate_srs after the text has come back,
\* src/main.py:1615-1633
ParseSrs ==
    /\ run.pc = "parse"
    /\ LET parsed == parse_srs(run.srs)
       IN  IF parsed.ok
           THEN /\ modules' = parsed.modules
                /\ module_files' = [ i \in 1..Len(parsed.modules) |-> NoFile ]
                /\ stats' = [ i \in 1..Len(parsed.modules) |-> NoStats ]
                /\ process_dir' = [ process_dir EXCEPT !["srs.json"] =
                                        File(json_dump(parsed.modules)) ]
                /\ run' = [ run EXCEPT !.pc = "confirm1" ]
           ELSE /\ run' = Exited(1, "error")
                /\ UNCHANGED << modules, module_files, stats, process_dir >>
    /\ last_call' = NoCall
    /\ UNCHANGED << fnVars, software_name, front, request_file, prompt_files,
                    pending_files, entry, mode, req, req2, subst, expand, raceVars >>

\* confirm_action before the frontend and before the documents,
\* src/main.py:1948-1950, 1964-1966
Confirm(answer) ==
    /\ run.pc \in { "confirm1", "confirm2" }
    /\ IF ~answer
       THEN run' = Exited(0, "declined") /\ UNCHANGED front
       ELSE IF run.pc = "confirm1"
       THEN /\ run' = [ run EXCEPT !.pc = "frontend" ]
            /\ front' = [ pc |-> IF modules = << >> THEN "done" ELSE "loop",
                          i |-> IF modules = << >> THEN 0 ELSE 1, attempt |-> 0 ]
       ELSE run' = [ run EXCEPT !.pc = "documents" ] /\ UNCHANGED front
    /\ UNCHANGED << fnVars, protoVars, modules, software_name, module_files, stats,
                    subst, expand, raceVars >>

\* one pass of the retry loop of generate_frontend_code
FrontendAttempt ==
    /\ run.pc = "frontend"
    /\ \E cli \in CliOutcomes : Attempt(cli)

\* generate_frontend_code returns; adjust_line_count, src/main.py:1700-1705,
\* 1956-1957
FrontendDone ==
    /\ run.pc = "frontend"
    /\ front.pc = "done"
    /\ run' = [ Assign(run, [ line_count |-> << "total_lines * 10" >> ])
                   EXCEPT !.pc = "confirm2" ]
    /\ UNCHANGED << fnVars, protoVars, frontVars, subst, expand, raceVars >>

\* how Steps 5 to 7 can end: they return, one of them raises an exception, or
\* a KeyboardInterrupt in a polling loop of _call_claude finds no output file
\* and is turned into FileNotFoundError
DocumentOutcomes == { "completed", "error", "interrupt in wait" }

\* what generate_function_descriptions stores, src/main.py:1707-1718
FunctionDescriptions ==
    [ main_functions_summary |-> << "summary" >>,
      main_functions_details |-> << "detailed" >> ]

\* what generate_dev_purpose stores, src/main.py:1720-1731
DevPurpose == [ dev_purpose |-> << "purpose" >> ]

\* Steps 5 to 7 and the return of run, src/main.py:1968-1979: an outcome other
\* than completed arrives in Step 5, 6 or 7, after the steps before it have
\* stored their values
Documents(outcome) ==
    /\ run.pc = "documents"
    /\ LET step5 == Assign(run, FunctionDescriptions)
           step6 == Assign(step5, DevPurpose)
       IN  IF outcome = "completed"
           THEN run' = [ step6 EXCEPT !.pc = "returned", !.status = 0, !.how = "completed" ]
           ELSE \E r \in { run, step5, step6 } :
                    run' = [ r EXCEPT !.pc = "exited", !.status = 1, !.how = outcome ]
    /\ UNCHANGED << fnVars, protoVars, frontVars, subst, expand, raceVars >>

\* exit status of a Python process ended by an uncaught KeyboardInterrupt
\* (the interpreter kills itself with SIGINT)
UncaughtInterruptStatus == 130

\* a KeyboardInterrupt outside the polling loops of _call_claude: inside the
\* try statement of run it is caught, src/main.py:1981-1983; before the try
\* statement nothing catches it
KeyboardInterrupt ==
    /\ run.pc \in { "main", "start", "inputs", "srs", "srs_cli", "parse", "confirm1",
                    "frontend", "confirm2", "documents" }
    /\ run' = IF run.pc \in { "main", "start" }
              THEN Exited(UncaughtInterruptStatus, "interrupt outside try")
              ELSE Exited(0, "interrupt")
    /\ UNCHANGED << fnVars, protoVars, frontVars, subst, expand, raceVars >>

NextRun ==
    \/ \E skip_inputs \in BOOLEAN : Main(skip_inputs)
    \/ EnterTry
    \/ CollectInputs
    \/ SrsBegin
    \/ \E cli \in SrsCliOutcomes : SrsCli(cli)
    \/ SrsWait
    \/ SrsFulfil
    \/ SrsReturn
    \/ ParseSrs
    \/ \E answer \in BOOLEAN : Confirm(answer)
    \/ FrontendAttempt
    \/ FrontendDone
    \/ \E outcome \in DocumentOutcomes : Documents(outcome)
    \/ KeyboardInterrupt

SpecRun == InitRun /\ [][NextRun]_vars

(***************************************************************************)
(* SpecSubst: replace_variables applied to every template and variable set *)
(***************************************************************************)

Keys == { "name", "a", "b" }

\* f"{{{{{key}}}}}", src/main.py:213
Placeholder(key) ==
    CASE key = "name" -> "{{name}}"
      [] key = "a" -> "{{a}}"
      [] key = "b" -> "{{b}}"
      [] OTHER -> "{{missing}}"

MaxTemplateLen == 2

TemplateTokens == { "Hello ", "{{name}}", "{{a}}", "{{b}}", "{{missing}}" }

Templates == SeqsUpTo(TemplateTokens, MaxTemplateLen)

\* values of variables: plain text, nothing, and text that is itself a placeholder
Values == { << "World" >>, << >>, << "{{a}}" >>, << "{{b}}" >> }

\* a dict of variables in its insertion order: a sequence of items with
\* distinct keys
VariableSets ==
    { d \in SeqsUpTo([ key : Keys, value : Values ], Cardinality(Keys)) :
        \A i, j \in 1..Len(d) : i # j => d[i].key # d[j].key }

\* str.replace(placeholder, value) on a text of tokens
RECURSIVE replace(_, _, _)
replace(text, placeholder, value) ==
    IF text = << >> THEN << >>
    ELSE (IF Head(text) = placeholder THEN value ELSE << Head(text) >>)
         \o replace(Tail(text), placeholder, value)

\* replace_variables, src/main.py:209-215: one str.replace per item, in the
\* order of the dict, each on the result of the one before
RECURSIVE replace_variables(_, _)
replace_variables(template, variables) ==
    IF variables = << >> THEN template
    ELSE replace_variables(replace(template, Placeholder(Head(variables).key),
                                   Head(variables).value),
                           Tail(variables))

InitSubst ==
    /\ FnIdle
    /\ FrontIdle
    /\ ProtoIdle
    /\ entry = "_call_claude"
    /\ mode = "auto"
    /\ run = NotRunning
    /\ expand = NoExpand
    /\ RaceIdle
    /\ subst \in [ template : Templates, variables : VariableSets, result : { << >> },
                   done : { FALSE } ]

ReplaceVariables ==
    /\ ~subst.done
    /\ subst' = [ subst EXCEPT !.result = replace_variables(subst.template,
                                                            subst.variables),
                               !.done = TRUE ]
    /\ UNCHANGED << fnVars, protoVars, frontVars, run, expand, raceVars >>

NextSubst == ReplaceVariables

SpecSubst == InitSubst /\ [][NextSubst]_vars

(***************************************************************************)
(* SpecExpand: expand_document_template applied to every template and      *)
(* every outcome of the CLI call                                           *)
(***************************************************************************)

MaxDocLen == 5

\* template_content, the text after replace_variables: 0 to MaxDocLen characters
ExpandTemplates == { Repeat("x", n) : n \in 0..MaxDocLen }

\* what the claude CLI call of expand_document_template can come to:
\*   error  call_claude_cli raises RuntimeError
\*   crash  the result field of the response is not text, an AttributeError
\*   text   the text of the response, bare or inside a code fence
ExpandCliOutcomes ==
    { [ kind |-> "error", text |-> << >> ], [ kind |-> "crash", text |-> << >> ] }
        \cup { [ kind |-> "text", text |-> Repeat("y", n) ] : n \in 0..MaxDocLen }
        \cup { [ kind |-> "text", text |-> << "Fence" >> \o Repeat("y", n) \o << "Fence" >> ] :
                 n \in 0..MaxDocLen }

\* the removal of the code fence lines, src/ai_bridge.py:558-561
strip_fences(result) ==
    LET a == IF result # << >> /\ Head(result) \in { "Fence", "FenceJson" }
             THEN Tail(result) ELSE result
    IN  IF a # << >> /\ a[Len(a)] = "Fence" THEN SubSeq(a, 1, Len(a) - 1) ELSE a

\* expand_document_template, src/ai_bridge.py:543-575: the text it returns and
\* the exception it lets through
expand_document_template(template_content, cli) ==
    IF cli.kind = "error"
    THEN [ result |-> template_content, error |-> "none" ]
    ELSE IF cli.kind = "crash"
    THEN [ result |-> << >>, error |-> "AttributeError" ]
    ELSE LET result == strip_fences(cli.text)
         IN  IF 2 * StrLen(result) < StrLen(template_content)
             THEN [ result |-> template_content, error |-> "none" ]
             ELSE [ result |-> result, error |-> "none" ]

InitExpand ==
    /\ FnIdle
    /\ FrontIdle
    /\ ProtoIdle
    /\ entry = "_call_claude"
    /\ mode = "auto"
    /\ run = NotRunning
    /\ subst = NoSubst
    /\ RaceIdle
    /\ \E t \in ExpandTemplates, cli \in ExpandCliOutcomes :
           expand = [ NoExpand EXCEPT !.template = t, !.cli = cli.kind, !.text = cli.text ]

ExpandDocumentTemplate ==
    /\ ~expand.done
    /\ LET r == expand_document_template(expand.template,
                                         [ kind |-> expand.cli, text |-> expand.text ])
       IN  expand' = [ expand EXCEPT !.result = r.result, !.error = r.error, !.done = TRUE ]
    /\ UNCHANGED << fnVars, protoVars, frontVars, run, subst, raceVars >>

NextExpand == ExpandDocumentTemplate

SpecExpand == InitExpand /\ [][NextExpand]_vars

(***************************************************************************)
(* SpecTwice: _generate_html_template called twice with the same           *)
(* arguments, in any mode, with other calls and file writes in between     *)
(***************************************************************************)

\* arguments of the calls made for other modules in between
OtherArgs ==
    { [ module_name |-> << "tongji" >>, software_name |-> << "x" >>,
        module_info |-> [ description |-> << >>, features |-> << >> ] ],
      [ module_name |-> << "yonghu" >>, software_name |-> << "x" >>,
        module_info |-> [ description |-> << "x" >>, features |-> << << "x" >> >> ] ] }

InitTwice ==
    /\ fb_args \in [ module_name : SeqsUpTo(NameWords, 1), software_name : SoftwareNames,
                     module_info : ModuleInfos ]
    /\ fb_html = NoHtml
    /\ html_code = << >>
    /\ verdict = NoVerdict
    /\ ProtoIdle
    /\ PipeIdle
    /\ entry = "_call_claude"
    /\ mode \in Modes
    /\ modules = << >>
    /\ software_name = << >>
    /\ module_files \in [ 1..1 -> { NoFile, File(GoodDoc) } ]
    /\ front = [ pc |-> "idle", i |-> 0, attempt |-> 0 ]
    /\ stats = << >>

\* a call for another module whose result the retry loop writes to PROCESS_DIR,
\* src/main.py:1685-1691
OtherCall(args) ==
    /\ html_code = << >>
    /\ module_files' =
           [ module_files EXCEPT ![1] =
               File(generate_html_template(args.module_name, args.software_name,
                                           args.module_info)) ]
    /\ module_files' # module_files
    /\ UNCHANGED << fnVars, protoVars, pipeVars, modules, software_name, front, stats >>

\* a second call that takes the text of a file in PROCESS_DIR when there is one
GenerateAgainReusingFile ==
    /\ fb_html # NoHtml
    /\ html_code = << >>
    /\ html_code' =
           IF Exists(module_files[1]) /\ Size(module_files[1]) > 0
           THEN Content(module_files[1])
           ELSE generate_html_template(fb_args.module_name, fb_args.software_name,
                                       fb_args.module_info)
    /\ UNCHANGED << verdict, fb_args, fb_html, protoVars, frontVars, pipeVars >>

\* the second call of _generate_html_template with the arguments of the first
GenerateAgain ==
    /\ fb_html # NoHtml
    /\ html_code = << >>
    /\ html_code' = generate_html_template(fb_args.module_name, fb_args.software_name,
                                           fb_args.module_info)
    /\ UNCHANGED << verdict, fb_args, fb_html, protoVars, frontVars, pipeVars >>

NextTwice ==
    \/ GenerateHtmlTemplate
    \/ \E args \in OtherArgs : OtherCall(args)
    \/ GenerateAgain

SpecTwice == InitTwice /\ [][NextTwice]_vars

(***************************************************************************)
(* SpecWatch: _call_claude in auto mode and the AutoGenerator process, one *)
(* system call of either process per step, with an external agent that     *)
(* writes the output files                                                 *)
(***************************************************************************)

\* a file name as its stem and suffixes
NameParts(name) ==
    IF name = "srs.json" THEN << "srs", ".json" >> ELSE << "summary", ".txt" >>

\* the name of the pending marker of an output file, src/main.py:1428
marker_name(output_file) == NameParts(output_file) \o << ".pending" >>

\* Path.stem: the name without its last suffix
stem(parts) == SubSeq(parts, 1, Len(parts) - 1)

\* AutoGenerator.get_output_filename: the stem with every .prompt removed
get_output_filename(pending_file) ==
    LET IsNotPrompt(part) == part # ".prompt"
    IN  SelectSeq(stem(pending_file), IsNotPrompt)

\* the marker of pending_files that has this name, and the file of PROCESS_DIR
\* that has this name
MarkerAt(pending_file) ==
    CHOOSE f \in OutNames : marker_name(f) = pending_file

OutputAt(parts) ==
    IF \E f \in OutNames : NameParts(f) = parts
    THEN process_dir[CHOOSE f \in OutNames : NameParts(f) = parts]
    ELSE NoFile

\* FileNotFoundError of an unlink or open of the marker
MarkerNotFound(output_file) == << "FileNotFoundError", output_file, ".pending" >>

\* `if output_path.exists()` and the stat of one loop iteration, src/main.py:1439-1443,
\* 1449-1450
SubmitCheck ==
    /\ req.pc = "polling"
    /\ req.via = "auto"
    /\ req.waited < max_wait(req.via)
    /\ LET output == process_dir[req.output_file]
       IN  IF Exists(output) /\ Size(output) > 0
           THEN req' = [ req EXCEPT !.pc = "detected" ]
           ELSE req' = [ req EXCEPT !.waited = @ + SleepBatch * check_interval(req.via) ]
    /\ last_call' = NoCall
    /\ UNCHANGED << request_file, process_dir, prompt_files, pending_files, entry, mode >>

\* `if marker_path.exists()`, src/main.py:1445
SubmitMarkerExists ==
    /\ req.pc = "detected"
    /\ req' = [ req EXCEPT !.pc = IF Exists(pending_files[req.output_file])
                                 THEN "unlink" ELSE "read" ]
    /\ last_call' = NoCall
    /\ UNCHANGED << request_file, process_dir, prompt_files, pending_files, entry, mode >>

\* `marker_path.unlink()`, src/main.py:1446; the FileNotFoundError of unlink on
\* a file that is gone is not caught in _call_claude
SubmitMarkerUnlink ==
    /\ req.pc = "unlink"
    /\ IF Exists(pending_files[req.output_file])
       THEN /\ pending_files' = [ pending_files EXCEPT ![req.output_file] = NoFile ]
            /\ req' = [ req EXCEPT !.pc = "read" ]
       ELSE /\ req' = Raised(req, MarkerNotFound(req.output_file), "unlink")
            /\ UNCHANGED pending_files
    /\ last_call' = NoCall
    /\ UNCHANGED << request_file, process_dir, prompt_files, entry, mode >>

\* the open and read of the output file, src/main.py:1447-1448
SubmitRead ==
    /\ req.pc = "read"
    /\ req' = Returned(req, Content(process_dir[req.output_file]), "detected")
    /\ last_call' = NoCall
    /\ UNCHANGED << request_file, process_dir, prompt_files, pending_files, entry, mode >>

\* the next pending file of the for loop of run, or back to the while loop
WatcherNext(w, ret) ==
    [ w EXCEPT !.pc = IF w.queue = << >> THEN "watching" ELSE "queue", !.ret = ret ]

\* check_pending_files in the loop of AutoGenerator.run, src/auto_generator.py:117-122:
\* the markers in PROMPTS_DIR, in the order glob gives them
WatcherCheck ==
    /\ watcher.pc = "watching"
    /\ LET found == { f \in OutNames : Exists(pending_files[f]) }
       IN  /\ found # {}
           /\ \E q \in [ 1..Cardinality(found) -> found ] :
                  /\ \A i, j \in DOMAIN q : i # j => q[i] # q[j]
                  /\ watcher' = [ watcher EXCEPT
                                      !.pc = "queue",
                                      !.queue = [ i \in DOMAIN q |-> marker_name(q[i]) ] ]
    /\ UNCHANGED << protoVars, fulfiller >>

\* process_pending_file up to its loop, src/auto_generator.py:73-87: read_prompt
\* opens the marker, and nothing catches the FileNotFoundError of a marker
\* that is gone
WatcherRead ==
    /\ watcher.pc = "queue"
    /\ watcher.queue # << >>
    /\ LET pending_file == Head(watcher.queue)
           marker == pending_files[MarkerAt(pending_file)]
       IN  IF Exists(marker)
           THEN watcher' = [ watcher EXCEPT !.pc = "waiting",
                                            !.queue = Tail(@),
                                            !.file = MarkerAt(pending_file),
                                            !.prompt = Content(marker),
                                            !.waited = 0,
                                            !.ret = "none" ]
           ELSE watcher' = [ watcher EXCEPT !.pc = "crashed",
                                            !.file = MarkerAt(pending_file),
                                            !.error = MarkerNotFound(MarkerAt(pending_file)) ]
    /\ UNCHANGED << protoVars, fulfiller >>

\* WatcherPoll that takes an output file of any size for the content
WatcherPollAnySize ==
    /\ watcher.pc = "waiting"
    /\ watcher.waited < 600
    /\ LET output == OutputAt(get_output_filename(marker_name(watcher.file)))
       IN  IF Exists(output)
           THEN watcher' = [ watcher EXCEPT !.pc = "unlink" ]
           ELSE watcher' = [ watcher EXCEPT !.waited = @ + SleepBatch ]
    /\ UNCHANGED << protoVars, fulfiller >>

\* one iteration of the loop of process_pending_file up to the unlink,
\* src/auto_generator.py:89-93, 98-99
WatcherPoll ==
    /\ watcher.pc = "waiting"
    /\ watcher.waited < 600
    /\ LET output == OutputAt(get_output_filename(marker_name(watcher.file)))
       IN  IF Exists(output) /\ Size(output) > 0
           THEN watcher' = [ watcher EXCEPT !.pc = "unlink" ]
           ELSE watcher' = [ watcher EXCEPT !.waited = @ + SleepBatch ]
    /\ UNCHANGED << protoVars, fulfiller >>

\* `pending_file.unlink()` and `return True`, src/auto_generator.py:95-97; the
\* FileNotFoundError of unlink on a marker that is gone ends the process
WatcherUnlink ==
    /\ watcher.pc = "unlink"
    /\ IF Exists(pending_files[watcher.file])
       THEN /\ pending_files' = [ pending_files EXCEPT ![watcher.file] = NoFile ]
            /\ watcher' = WatcherNext(watcher, "True")
       ELSE /\ watcher' = [ watcher EXCEPT !.pc = "crashed",
                                           !.error = MarkerNotFound(watcher.file) ]
            /\ UNCHANGED pending_files
    /\ UNCHANGED << request_file, process_dir, prompt_files, entry, mode, req, req2,
                    last_call, fulfiller >>

\* the code after the loop, src/auto_generator.py:103-104
WatcherTimeout ==
    /\ watcher.pc = "waiting"
    /\ ~(watcher.waited < 600)
    /\ watcher' = WatcherNext(watcher, "False")
    /\ UNCHANGED << protoVars, fulfiller >>

InitWatch ==
    /\ FnIdle
    /\ FrontIdle
    /\ ProtoIdle
    /\ entry = "_call_claude"
    /\ mode = "auto"
    /\ run = NotRunning
    /\ subst = NoSubst
    /\ expand = NoExpand
    /\ watcher = [ NoWatcher EXCEPT !.pc = "watching" ]
    /\ fulfiller = NoFulfiller

\* _call_claude is called when no call of it is in progress
SubmitBegin ==
    /\ req.pc \in { "idle", "returned", "failed" }
    /\ \E f \in OutNames : CallClaude("prompt1", f)

\* the external agent writes an output file
AgentWrites ==
    \/ \E f \in OutNames : WriterOpen(f)
    \/ \E f \in OutNames, text \in Texts : WriterFill(f, text)

NextWatch ==
    \/ (SubmitBegin /\ UNCHANGED << fnVars, frontVars, pipeVars, req2 >>)
    \/ (SubmitCheck /\ UNCHANGED << fnVars, frontVars, pipeVars, req2 >>)
    \/ (SubmitMarkerExists /\ UNCHANGED << fnVars, frontVars, pipeVars, req2 >>)
    \/ (SubmitMarkerUnlink /\ UNCHANGED << fnVars, frontVars, pipeVars, req2 >>)
    \/ (SubmitRead /\ UNCHANGED << fnVars, frontVars, pipeVars, req2 >>)
    \/ (WaitExceeded /\ UNCHANGED << fnVars, frontVars, pipeVars, req2 >>)
    \/ (AgentWrites /\ UNCHANGED << fnVars, frontVars, pipeVars, req2 >>)
    \/ (WatcherCheck /\ UNCHANGED << fnVars, frontVars, run, subst, expand >>)
    \/ (WatcherRead /\ UNCHANGED << fnVars, frontVars, run, subst, expand >>)
    \/ (WatcherPoll /\ UNCHANGED << fnVars, frontVars, run, subst, expand >>)
    \/ (WatcherUnlink /\ UNCHANGED << fnVars, frontVars, run, subst, expand >>)
    \/ (WatcherTimeout /\ UNCHANGED << fnVars, frontVars, run, subst, expand >>)

SpecWatch == InitWatch /\ [][NextWatch]_vars

(***************************************************************************)
(* SpecRace: request_generation and complete_request in two processes, one *)
(* system call of either per step                                          *)
(***************************************************************************)

\* FileNotFoundError of an unlink or open of REQUEST_FILE
RequestNotFound == << "FileNotFoundError", ".generation_request" >>

\* `if output_path.exists()` and the stat of one loop iteration,
\* src/ai_bridge.py:100-104, 110-111
BridgeCheck ==
    /\ req.pc = "polling"
    /\ req.via = "bridge"
    /\ req.waited < max_wait(req.via)
    /\ LET output == process_dir[req.output_file]
       IN  IF Exists(output) /\ Size(output) > 0
           THEN req' = [ req EXCEPT !.pc = "detected" ]
           ELSE req' = [ req EXCEPT !.waited = @ + SleepBatch * check_interval(req.via) ]
    /\ UNCHANGED << request_file, process_dir, prompt_files, pending_files, entry, mode,
                    last_call >>

\* `if REQUEST_FILE.exists()`, src/ai_bridge.py:106
BridgeRequestExists ==
    /\ req.pc = "detected"
    /\ req' = [ req EXCEPT !.pc = IF Exists(request_file) THEN "unlink" ELSE "read" ]
    /\ UNCHANGED << request_file, process_dir, prompt_files, pending_files, entry, mode,
                    last_call >>

\* `REQUEST_FILE.unlink()`, src/ai_bridge.py:107; the FileNotFoundError of
\* unlink on a file that is gone is not caught in request_generation
BridgeRequestUnlink ==
    /\ req.pc = "unlink"
    /\ IF Exists(request_file)
       THEN request_file' = NoFile /\ req' = [ req EXCEPT !.pc = "read" ]
       ELSE req' = Raised(req, RequestNotFound, "unlink") /\ UNCHANGED request_file
    /\ UNCHANGED << process_dir, prompt_files, pending_files, entry, mode, last_call >>

\* the open and read of the output file, src/ai_bridge.py:108-109
BridgeRead ==
    /\ req.pc = "read"
    /\ req' = Returned(req, Content(process_dir[req.output_file]), "detected")
    /\ UNCHANGED << request_file, process_dir, prompt_files, pending_files, entry, mode,
                    last_call >>

\* complete_request has returned ret
Completed(ret) ==
    [ fulfiller EXCEPT !.pc = "done", !.ret = ret ]

\* complete_request(content) is called; `if REQUEST_FILE.exists()` of
\* check_request, src/ai_bridge.py:135
CompleteCheck(content) ==
    /\ fulfiller.pc \in { "idle", "done" }
    /\ fulfiller' = [ NoFulfiller EXCEPT !.content = content,
                                         !.pc = IF Exists(request_file) THEN "load"
                                                ELSE "done",
                                         !.ret = IF Exists(request_file) THEN "none"
                                                 ELSE "False" ]
    /\ UNCHANGED << protoVars, watcher >>

\* the open, json.load and from_dict of check_request, src/ai_bridge.py:136-141;
\* the FileNotFoundError of open is not among the exceptions caught
CompleteLoad ==
    /\ fulfiller.pc = "load"
    /\ fulfiller' =
           IF ~Exists(request_file)
           THEN [ fulfiller EXCEPT !.pc = "crashed", !.error = RequestNotFound ]
           ELSE IF Loads(Content(request_file))
           THEN [ fulfiller EXCEPT !.pc = "open",
                                   !.output_file = Content(request_file).output_file ]
           ELSE Completed("False")
    /\ UNCHANGED << protoVars, watcher >>

\* open(output_path, 'w'), src/ai_bridge.py:149
CompleteOpen ==
    /\ fulfiller.pc = "open"
    /\ process_dir' = [ process_dir EXCEPT ![fulfiller.output_file] = File(<< >>) ]
    /\ fulfiller' = [ fulfiller EXCEPT !.pc = "write" ]
    /\ UNCHANGED << request_file, prompt_files, pending_files, entry, mode, req, req2,
                    last_call, watcher >>

\* f.write(content) and the close of the file, src/ai_bridge.py:150
CompleteWrite ==
    /\ fulfiller.pc = "write"
    /\ process_dir' = [ process_dir EXCEPT ![fulfiller.output_file] =
                            File(fulfiller.content) ]
    /\ fulfiller' = [ fulfiller EXCEPT !.pc = "exists" ]
    /\ UNCHANGED << request_file, prompt_files, pending_files, entry, mode, req, req2,
                    last_call, watcher >>

\* `if REQUEST_FILE.exists()`, src/ai_bridge.py:153, and `return True` when it
\* does not
CompleteRequestExists ==
    /\ fulfiller.pc = "exists"
    /\ fulfiller' = IF Exists(request_file) THEN [ fulfiller EXCEPT !.pc = "unlink" ]
                    ELSE Completed("True")
    /\ UNCHANGED << protoVars, watcher >>

\* `REQUEST_FILE.unlink()` and `return True`, src/ai_bridge.py:154-155
CompleteUnlink ==
    /\ fulfiller.pc = "unlink"
    /\ IF Exists(request_file)
       THEN request_file' = NoFile /\ fulfiller' = Completed("True")
       ELSE /\ fulfiller' = [ fulfiller EXCEPT !.pc = "crashed", !.error = RequestNotFound ]
            /\ UNCHANGED request_file
    /\ UNCHANGED << process_dir, prompt_files, pending_files, entry, mode, req, req2,
                    last_call, watcher >>

InitRace ==
    /\ FnIdle
    /\ FrontIdle
    /\ ProtoIdle
    /\ PipeIdle
    /\ entry = "request_generation"
    /\ mode = "auto"

\* request_generation is called when no call of it is in progress
RaceRequest ==
    /\ req.pc \in { "idle", "returned", "failed" }
    /\ \E t \in TaskTypes, f \in OutNames : RequestGeneration(t, "prompt1", f, "ctx")

NextRace ==
    \/ (RaceRequest /\ UNCHANGED << fnVars, frontVars, pipeVars, req2 >>)
    \/ (BridgeCheck /\ UNCHANGED << fnVars, frontVars, pipeVars, req2 >>)
    \/ (BridgeRequestExists /\ UNCHANGED << fnVars, frontVars, pipeVars, req2 >>)
    \/ (BridgeRequestUnlink /\ UNCHANGED << fnVars, frontVars, pipeVars, req2 >>)
    \/ (BridgeRead /\ UNCHANGED << fnVars, frontVars, pipeVars, req2 >>)
    \/ (WaitExceeded /\ UNCHANGED << fnVars, frontVars, pipeVars, req2 >>)
    \/ \E content \in Texts :
           CompleteCheck(content) /\ UNCHANGED << fnVars, frontVars, run, subst, expand >>
    \/ (CompleteLoad /\ UNCHANGED << fnVars, frontVars, run, subst, expand >>)
    \/ (CompleteOpen /\ UNCHANGED << fnVars, frontVars, run, subst, expand >>)
    \/ (CompleteWrite /\ UNCHANGED << fnVars, frontVars, run, subst, expand >>)
    \/ (CompleteRequestExists /\ UNCHANGED << fnVars, frontVars, run, subst, expand >>)
    \/ (CompleteUnlink /\ UNCHANGED << fnVars, frontVars, run, subst, expand >>)

SpecRace == InitRace /\ [][NextRace]_vars

(***************************************************************************)
(* SpecComplete: complete_request applied to every state of the request    *)
(* slot                                                                    *)
(***************************************************************************)

\* what the slot can hold: nothing; text that is not JSON (an empty or
\* half-written file among them); a JSON object without task_type or without
\* prompt; a descriptor written by request_generation; a descriptor without
\* the optional context
SlotStates ==
    { NoFile, File(NotJson),
      File([ prompt |-> "prompt1", output_file |-> "srs.json", context |-> "ctx" ]),
      File([ task_type |-> "srs", output_file |-> "srs.json", context |-> "ctx" ]) }
        \cup { File(GenerationRequest("srs", "prompt1", f, "ctx")) : f \in OutNames }
        \cup { File([ task_type |-> "srs", prompt |-> "prompt1", output_file |-> f ]) :
                   f \in OutNames }

InitComplete ==
    /\ FnIdle
    /\ FrontIdle
    /\ PipeIdle
    /\ entry = "request_generation"
    /\ mode = "auto"
    /\ request_file \in SlotStates
    /\ process_dir \in [ OutNames -> { NoFile, File(<< >>), File(<< "x" >>) } ]
    /\ prompt_files = [ f \in OutNames |-> NoFile ]
    /\ pending_files = [ f \in OutNames |-> NoFile ]
    /\ req = Idle
    /\ req2 = Idle
    /\ last_call = NoCall

NextComplete ==
    \E content \in Texts :
        CompleteRequest(content) /\ UNCHANGED << fnVars, frontVars, pipeVars, req2 >>

SpecComplete == InitComplete /\ [][NextComplete]_vars

(***************************************************************************)
(* Claims                                                                  *)
(***************************************************************************)

\* the output file the submit in progress waits for
Output == process_dir[req.output_file]

\* a step of the submit in progress
RequesterStep == req.pc = "polling" /\ req' # req

\* C1: with a request descriptor in the slot, complete_request(content) leaves
\* exactly content in the descriptor's declared output file, leaves the slot
\* empty and returns True.
C1_CompleteWritesOutputAndClearsSlot ==
    [][ (last_call'.op = "complete_request" /\ Exists(request_file)) =>
            /\ last_call'.ret = TRUE
            /\ process_dir'[Content(request_file).output_file] = File(last_call'.content)
            /\ \A f \in OutNames \ { Content(request_file).output_file } :
                   process_dir'[f] = process_dir[f]
            /\ request_file' = NoFile ]_vars

\* complete_request has fulfilled a request with non-empty content
C1_Witness ==
    /\ last_call.op = "complete_request"
    /\ last_call.ret = TRUE
    /\ last_call.content # << >>
    /\ request_file = NoFile
    /\ \E f \in OutNames : process_dir[f] = File(last_call.content)

\* C2: a step of the polling loop, within the wait bound, that finds the
\* output file non-empty returns exactly the text of the file, and then
\* neither the pending marker of that output file nor a request descriptor
\* exists.
C2_DetectedOutputIsReturnedAndCleaned ==
    [][ (RequesterStep /\ req.waited < max_wait(req.via)
           /\ Exists(Output) /\ Size(Output) > 0) =>
            /\ req'.pc = "returned"
            /\ req'.result = << Content(Output) >>
            /\ pending_files'[req.output_file] = NoFile
            /\ request_file' = NoFile ]_vars

\* the polling loop has detected output written after the submit began to
\* wait, and it had a pending marker or a descriptor to remove
C2_Witness ==
    /\ req.pc = "returned"
    /\ req.how = "detected"
    /\ req.waited > 0
    /\ req.via \in { "auto", "bridge" }
    /\ req.result = << Content(Output) >>

\* C3: when no output file is ever created a submit never returns content;
\* it polls only while waited is below the wait bound (600, on the interactive
\* path 300), fails after the bound with a FileNotFoundError naming the
\* output path, and every submit that polls ends in that failure.
C3_NoOutputEndsInNotFound ==
    /\ [](req.pc # "returned")
    /\ [](req.pc = "polling" =>
              req.waited < (IF req.via = "interactive" THEN 300 ELSE 600)
                               + SleepBatch * check_interval(req.via))
    /\ [](req.pc = "failed" =>
              /\ req.error = FileNotFoundError(req.output_file)
              /\ req.how = "timeout" =>
                     req.waited >= (IF req.via = "interactive" THEN 300 ELSE 600))
    /\ ((req.pc = "polling") ~> (req.pc = "failed"))

\* a submit has failed at the wait bound of each kind of path
C3_Witness ==
    /\ req.pc = "failed"
    /\ req.how = "timeout"
    /\ req.via = "interactive"
    /\ req.waited >= 300
    /\ req.error = FileNotFoundError(req.output_file)

\* C4: past the wait bound the submit returns the text of the output file
\* if the file exists, and fails, naming the output path, only if it does not.
C4_AfterWaitBoundExistingOutputIsReturned ==
    [][ (RequesterStep /\ ~(req.waited < max_wait(req.via))) =>
            IF Exists(Output)
            THEN req'.pc = "returned" /\ req'.result = << Content(Output) >>
            ELSE req'.pc = "failed" /\ req'.error = FileNotFoundError(req.output_file)
      ]_vars

\* the loop ran to the wait bound without detecting output, and the file
\* written meanwhile was returned
C4_Witness ==
    /\ req.pc = "returned"
    /\ req.how = "timeout"
    /\ req.result # << << >> >>
    /\ req.result = << Content(Output) >>

\* C5: an interrupt of the polling loop returns the text of the output file
\* when the file exists, and then neither the pending marker of that file nor
\* a request descriptor exists; when the file does not exist the submit fails
\* with an error naming the output path.
C5_InterruptReturnsExistingOutput ==
    [][ (req.pc = "polling" /\ req'.how = "interrupt") =>
            IF Exists(Output)
            THEN /\ req'.pc = "returned"
                 /\ req'.result = << Content(Output) >>
                 /\ pending_files'[req.output_file] = NoFile
                 /\ request_file' = NoFile
            ELSE /\ req'.pc = "failed"
                 /\ req'.error = FileNotFoundError(req.output_file) ]_vars

\* an interrupt has returned an output file that the loop had not accepted
\* (it is empty), after removing the marker or the descriptor
C5_Witness ==
    /\ req.pc = "returned"
    /\ req.how = "interrupt"
    /\ req.via \in { "auto", "bridge" }
    /\ req.result = << << >> >>

\* C6 as stated: a submit that polls has written the request descriptor, the
\* prompt record and the pending marker.
C6_AllThreeArtifactsWritten ==
    req.pc = "polling" =>
        /\ Exists(request_file)
        /\ Exists(prompt_files[req.output_file])
        /\ Exists(pending_files[req.output_file])

\* C6 amended: a submit that starts to poll has written its own hand-off
\* artifacts and no others: request_generation the request descriptor only,
\* _call_claude the prompt record and, in auto mode only, the pending marker.
C6_EachSubmitWritesItsOwnArtifacts ==
    [][ (req.pc # "polling" /\ req'.pc = "polling") =>
            LET f == req'.output_file
            IN  IF req'.via = "bridge"
                THEN /\ Exists(request_file')
                     /\ Content(request_file').prompt = req'.prompt
                     /\ Content(request_file').output_file = f
                     /\ Content(request_file').task_type \in TaskTypes
                     /\ Content(request_file').context \in Contexts
                     /\ prompt_files' = prompt_files
                     /\ pending_files' = pending_files
                ELSE /\ prompt_files'[f] = File(req'.prompt)
                     /\ request_file' = request_file
                     /\ IF req'.via = "auto"
                        THEN pending_files'[f] = File(req'.prompt)
                        ELSE pending_files' = pending_files ]_vars

\* an interactive submit is polling with a prompt record and no pending
\* marker and no descriptor
C6_Witness ==
    /\ req.pc = "polling"
    /\ req.via = "interactive"
    /\ prompt_files[req.output_file] = File(req.prompt)
    /\ ~Exists(pending_files[req.output_file])
    /\ ~Exists(request_file)

\* the result of the retry loop for module i
Done(i) == i < front.i \/ front.pc = "done"

\* C7 as stated: at most 3 generation calls per module, no rejected attempt
\* ends the loop, _generate_html_template is invoked for a module if and only
\* if its 3 attempts were all rejected, and then the loop goes to the next module.
C7_FallbackGeneratorOnlyAfterThreeRejections ==
    /\ [](\A i \in 1..Len(modules) :
              /\ stats[i].calls <= 3
              /\ (stats[i].fallback \/ stats[i].template_in_attempt)
                     <=> (stats[i].rejected = 3))
    /\ [][ \A i \in 1..Len(modules) :
               stats'[i].rejected > stats[i].rejected =>
                   /\ front'.pc \in { "loop", "done" }
                   /\ stats'[i].fallback => front' = NextModule ]_vars

\* C7 amended: at most 3 generation calls per module; a rejected attempt is
\* followed by the next attempt for the same module or, if it was the third,
\* by the retry loop's own call of _generate_html_template and the next module;
\* the loop makes that call if and only if all 3 attempts were rejected, while
\* an attempt may itself return template output.
C7_LoopFallbackIffThreeRejections ==
    /\ [](\A i \in 1..Len(modules) :
              /\ stats[i].calls <= 3
              /\ stats[i].rejected <= stats[i].calls
              /\ stats[i].fallback <=> (stats[i].rejected = 3)
              /\ (Done(i) /\ ~stats[i].fallback) => stats[i].saved)
    /\ [][ \A i \in 1..Len(modules) :
               stats'[i].rejected > stats[i].rejected =>
                   /\ front'.pc \in { "loop", "done" }
                   /\ IF stats'[i].rejected < 3
                      THEN front' = [ front EXCEPT !.attempt = @ + 1 ]
                      ELSE stats'[i].fallback /\ front' = NextModule ]_vars

\* the first module was rejected three times by output of the CLI, the loop
\* fell back for it and has gone on to the second module
C7_Witness ==
    /\ Len(modules) = 2
    /\ front.pc = "loop"
    /\ front.i = 2
    /\ stats[1].fallback
    /\ stats[1].rejected = 3
    /\ ~stats[1].template_in_attempt

\* C8: when generate_frontend_code has finished, every module has its output
\* file and the text of the file passes _validate_html.
C8_EveryModuleFilePassesValidate ==
    front.pc = "done" =>
        \A i \in 1..Len(modules) :
            /\ Exists(module_files[i])
            /\ validate_html(Content(module_files[i])).ok

\* C9: whatever the module name, software name and module info, the text
\* returned by _generate_html_template passes _validate_html.
C9_FallbackOutputPassesValidate ==
    verdict # NoVerdict => verdict.ok

AllTags(text) ==
    /\ Has(lower(text), "<html")
    /\ Has(lower(text), "<head")
    /\ Has(lower(text), "<body")
    /\ Has(lower(text), "</html>")

NoPattern(text) == \A p \in PatternSet : ~Has(text, p)

\* C10: _validate_html reports the first check that fails, in the order tags
\* <html, <head, <body, </html>, then listed phrases, then the length of 1000,
\* then the style block, and accepts only text that passes all four; text with
\* all tags and no listed phrase that is shorter than 1000 is "too short".
C10_FirstFailingCheckInOrder ==
    verdict # NoVerdict =>
        LET low == lower(html_code)
        IN  /\ verdict.ok <=> /\ AllTags(html_code)
                              /\ NoPattern(html_code)
                              /\ StrLen(html_code) >= 1000
                              /\ Has(low, "<style")
            /\ ~Has(low, "<html") => verdict.detail = "<html>"
            /\ (Has(low, "<html") /\ ~Has(low, "<head")) => verdict.detail = "<head>"
            /\ (Has(low, "<html") /\ Has(low, "<head") /\ ~Has(low, "<body"))
                   => verdict.detail = "<body>"
            /\ (Has(low, "<html") /\ Has(low, "<head") /\ Has(low, "<body")
                  /\ ~Has(low, "</html>")) => verdict.detail = "</html>"
            /\ ~AllTags(html_code) => verdict.reason = "missing tag"
            /\ (AllTags(html_code) /\ ~NoPattern(html_code))
                   => verdict.reason = "explanatory text"
            /\ (AllTags(html_code) /\ NoPattern(html_code) /\ StrLen(html_code) < 1000)
                   => verdict.reason = "too short"
            /\ (AllTags(html_code) /\ NoPattern(html_code) /\ StrLen(html_code) >= 1000
                  /\ ~Has(low, "<style"))
                   => verdict.reason = "missing tag" /\ verdict.detail = "<style>"

\* text with all four tags, no listed phrase, no style block and 999
\* characters has been rejected as too short
C10_Witness ==
    /\ verdict.reason = "too short"
    /\ AllTags(html_code)
    /\ NoPattern(html_code)
    /\ ~Has(lower(html_code), "<style")
    /\ StrLen(html_code) = 999

\* the elements _validate_html looks for, in the order of the claim, and the
\* names its messages give them
Elements == << "<html", "<head", "<body", "</html>", "<style" >>

ElementNames == << "<html>", "<head>", "<body>", "</html>", "<style>" >>

Missing(text, k) == ~Has(lower(text), Elements[k])

FirstMissing(text, k) == Missing(text, k) /\ \A j \in 1..(k - 1) : ~Missing(text, j)

\* C11 as stated: text that is missing one of <html, <head, <body, </html>,
\* <style (case-insensitively) is rejected with a reason that names the missing
\* element (the first one in this order, if several are missing).
C11_MissingElementIsNamed ==
    verdict # NoVerdict =>
        \A k \in 1..5 :
            FirstMissing(html_code, k) =>
                /\ ~verdict.ok
                /\ verdict.reason = "missing tag"
                /\ verdict.detail = ElementNames[k]

\* C11 amended: text missing any of the five elements is rejected; if one of
\* <html, <head, <body, </html> is missing the reason names the first missing
\* one; if only <style is missing the reason names <style> only when the text
\* has no listed phrase and at least 1000 characters, otherwise it is the
\* phrase found or "too short".
C11_MissingElementIsRejected ==
    verdict # NoVerdict =>
        /\ (\E k \in 1..5 : Missing(html_code, k)) => ~verdict.ok
        /\ \A k \in 1..4 :
               FirstMissing(html_code, k) =>
                   verdict.reason = "missing tag" /\ verdict.detail = ElementNames[k]
        /\ FirstMissing(html_code, 5) =>
               IF \E p \in PatternSet : Has(html_code, p)
               THEN verdict.reason = "explanatory text" /\ verdict.detail \in PatternSet
               ELSE IF StrLen(html_code) < 1000
               THEN verdict.reason = "too short"
               ELSE verdict.reason = "missing tag" /\ verdict.detail = "<style>"

\* text whose only <html tag is written <HTML> and that has no <body has been
\* rejected for the missing <body>
C11_Witness ==
    /\ verdict # NoVerdict
    /\ \E i \in 1..Len(html_code) : html_code[i] = "<HTML>"
    /\ \A i \in 1..Len(html_code) : html_code[i] # "<html>"
    /\ FirstMissing(html_code, 3)
    /\ verdict.detail = "<body>"

\* C12: text that contains a phrase of failure_patterns is rejected, also when
\* it has all tags, a style block and at least 1000 characters.
C12_ListedPhraseIsRejected ==
    verdict # NoVerdict =>
        ((\E i \in 1..Len(html_code) : html_code[i] \in PatternSet) => ~verdict.ok)

\* text with all five elements and more than 1000 characters that ends in a
\* listed phrase has been rejected
C12_Witness ==
    /\ verdict # NoVerdict
    /\ \A k \in 1..5 : ~Missing(html_code, k)
    /\ StrLen(html_code) >= 1000
    /\ \E i \in 1..Len(html_code) : html_code[i] \in PatternSet
    /\ ~verdict.ok
    /\ verdict.reason = "explanatory text"

Holds(r) ==
    /\ Exists(request_file)
    /\ Content(request_file).output_file = r.output_file
    /\ Content(request_file).prompt = r.prompt

\* a submit step of either requester leaves its own descriptor, and nothing
\* else, in the request slot
SubmitOverwrites ==
    /\ (req.pc = "idle" /\ req'.pc = "polling") => Holds(req)'
    /\ (req2.pc = "idle" /\ req2'.pc = "polling") => Holds(req2)'

\* complete_request writes the output file named by the descriptor in the slot
\* and no other file, and empties the slot
CompleteFulfilsSlot ==
    (last_call'.op = "complete_request" /\ Exists(request_file)) =>
        /\ last_call'.ret
        /\ process_dir' = [ process_dir EXCEPT ![Content(request_file).output_file] =
                                File(last_call'.content) ]
        /\ request_file' = NoFile

Ended == run.pc \in { "exited", "returned" }

\* C15 as stated: the exit status is 0 when the pipeline completes or the
\* operator declines a confirmation, 1 on an error, and 0 on an interruption
\* wherever inside the try statement of run it arrives.
C15_InterruptionAlwaysExitsZero ==
    Ended =>
        /\ run.how \in { "completed", "declined" } => run.status = 0
        /\ run.how = "error" => run.status = 1
        /\ run.how \in { "interrupt", "interrupt in wait" } => run.status = 0

\* C15 amended: the exit status is 0 on completion, on a declined confirmation
\* and on an interruption caught by run; it is 1 on an error, and also when
\* the interruption arrives in a polling loop of _call_claude and the output
\* file does not exist; an interruption in the polling loop with the output
\* file present does not end the run, which goes on with the file's text; an
\* interruption before the try statement of run ends with a non-zero status.
C15_ExitStatusByCause ==
    /\ [](Ended =>
            /\ run.how \in { "completed", "declined", "interrupt" } => run.status = 0
            /\ run.how \in { "error", "interrupt in wait" } => run.status = 1
            /\ run.how = "interrupt outside try" => run.status # 0
            /\ run.status \in { 0, 1, UncaughtInterruptStatus })
    /\ [][ (run.pc = "srs_wait" /\ req.pc = "polling" /\ req'.how = "interrupt") =>
               /\ run' = run
               /\ req'.pc = IF Exists(process_dir["srs.json"]) THEN "returned" ELSE "failed"
         ]_vars
    /\ [][ (run.pc = "srs_wait" /\ req.how = "interrupt" /\ run' # run) =>
               IF req.pc = "returned"
               THEN run'.pc = "parse" /\ run'.status = -1
               ELSE run'.pc = "exited" /\ run'.status = 1 ]_vars
    /\ [][ (run.pc \in { "main", "start" } /\ run'.pc = "exited") => run'.status # 0 ]_vars

\* the operator interrupted the wait for srs.json, no output file was there,
\* and the run has ended with status 1
C15_Witness ==
    /\ run.pc = "exited"
    /\ run.how = "interrupt in wait"
    /\ run.status = 1
    /\ req.pc = "failed"
    /\ req.how = "interrupt"

PastSrs == run.pc \in { "parse", "confirm1", "frontend", "confirm2", "documents", "returned" }

NoModuleArtifact == \A i \in 1..Len(module_files) : module_files[i] = NoFile

\* a FileNotFoundError of the wait for srs.json ends the run with status 1
\* before any module file is written
SrsWaitFailureIsFatal ==
    (run.pc = "srs_wait" /\ req.pc = "failed" /\ run' # run) =>
        /\ run'.pc = "exited"
        /\ run'.status = 1
        /\ NoModuleArtifact'

\* no pass of the retry loop, whatever the CLI call comes to, ends the run
HtmlFailureIsAbsorbed ==
    (run.pc = "frontend" /\ stats' # stats) => run' = run

\* C16 as stated: a timeout, a missing output or a failure of the external
\* tool while the requirements breakdown is produced ends the run with a
\* non-zero status and without module artifacts; on the HTML path they do not
\* end the run.
C16_SrsFailureIsFatal ==
    /\ [](run.cli_failed => (~PastSrs /\ (run.pc = "exited" => run.status # 0)))
    /\ [][SrsWaitFailureIsFatal]_vars
    /\ []((run.pc = "exited" /\ front.pc = "idle") => NoModuleArtifact)
    /\ [][HtmlFailureIsAbsorbed]_vars

\* C16 amended: a failure of the CLI call for the requirements breakdown is
\* absorbed: _call_claude then waits for srs.json; only the failure of that
\* wait (wait bound exceeded or interrupted, no output file) ends the run,
\* with status 1 and without module artifacts; on the HTML path no failure
\* ends the run.
C16_SrsCliFailureFallsBackToWait ==
    /\ [][ (run.pc = "srs_cli" /\ run'.cli_failed) =>
               /\ run'.pc = "srs_wait"
               /\ req'.pc = "polling"
               /\ req'.output_file = "srs.json" ]_vars
    /\ [][SrsWaitFailureIsFatal]_vars
    /\ []((run.pc = "exited" /\ front.pc = "idle") => NoModuleArtifact)
    /\ [][HtmlFailureIsAbsorbed]_vars

\* the CLI call for the requirements breakdown failed, the wait for srs.json
\* then returned text that parsed, and the run is at the first confirmation
C16_Witness ==
    /\ run.cli_failed
    /\ run.pc = "confirm1"
    /\ req.pc = "returned"
    /\ modules = SrsModules

\* the text is the JSON array itself
IsJsonArray(text) == Len(text) = 1 /\ text[1] \in JsonArrays

\* the first fenced json block of the text holds the JSON array
ArrayInFirstBlock(text) ==
    \E i \in 1..Len(text) :
        /\ text[i] = "FenceJson"
        /\ \A k \in 1..(i - 1) : text[k] # "FenceJson"
        /\ i + 2 <= Len(text)
        /\ text[i + 1] = "JsonModules"
        /\ text[i + 2] = "Fence"

Lookup(variables, key) ==
    LET at == { i \in 1..Len(variables) : variables[i].key = key }
    IN  IF at = {} THEN << >> ELSE << variables[CHOOSE i \in at : TRUE].value >>

\* what a token of the template is to become: the value of its key if it is
\* the placeholder of a key of the variable set, itself otherwise
Substituted(token, variables) ==
    LET keys == { k \in Keys : Placeholder(k) = token /\ Lookup(variables, k) # << >> }
    IN  IF keys = {} THEN << token >> ELSE Lookup(variables, CHOOSE k \in keys : TRUE)[1]

RECURSIVE TokenByToken(_, _)
TokenByToken(template, variables) ==
    IF template = << >> THEN << >>
    ELSE Substituted(Head(template), variables) \o TokenByToken(Tail(template), variables)

\* C18: in the text returned by replace_variables every {{key}} of the
\* template whose key is in the variable set stands replaced by the value of
\* the key, and every other token of the template, {{key}} with an absent key
\* included, stands as it was.
C18_EachPlaceholderReplacedByItsValue ==
    subst.done => subst.result = TokenByToken(subst.template, subst.variables)

\* the text of the CLI response without its code fence
Expanded == strip_fences(expand.text)

\* C19: expand_document_template returns the expanded text only if it has at
\* least half the length of the template; if it is shorter, and whenever the
\* CLI call or its response fails, it returns the template as it was and
\* raises nothing.
C19_ShortOrFailedExpansionKeepsOriginal ==
    expand.done =>
        /\ expand.error = "none"
        /\ expand.result =
               IF expand.cli = "text" /\ 2 * StrLen(Expanded) >= StrLen(expand.template)
               THEN Expanded
               ELSE expand.template

\* C20: when an attempt is rejected and attempts remain, the module's file is
\* removed from PROCESS_DIR: whenever a further attempt for a module begins
\* its file does not exist, so generate_html_code does not return text read
\* from the file, whatever the CLI call comes to.
C20_RejectedOutputIsDiscarded ==
    /\ [][ \A i \in 1..Len(modules) :
               (stats'[i].rejected > stats[i].rejected /\ front.attempt < max_retries - 1)
                   => /\ ~Exists(module_files'[i])
                      /\ front'.pc = "loop"
                      /\ front'.i = i ]_vars
    /\ []((front.pc = "loop" /\ front.attempt > 0) =>
              /\ ~Exists(module_files[front.i])
              /\ \A cli \in CliOutcomes :
                     generate_html_code(front.i, modules[front.i], cli).by # "existing")

\* in interactive mode the first attempt for a module returned the text of a
\* file left in PROCESS_DIR, the text was rejected, and the second attempt is
\* about to begin with the file removed
C20_Witness ==
    /\ mode = "interactive"
    /\ front.pc = "loop"
    /\ front.attempt = 1
    /\ stats[front.i].rejected = 1
    /\ ~stats[front.i].template_in_attempt
    /\ ~Exists(module_files[front.i])

\* C21: once the requirements breakdown has been parsed, the module list has
\* as many modules as were requested (variables["module_count"], 10 when the
\* key is not set).
C21_ModuleCountEqualsRequested ==
    run.pc \in { "confirm1", "frontend", "confirm2", "documents", "returned" }
        => Len(modules) = requested_module_count

\* the section tokens, one per branch of _generate_module_specific_content
Sections ==
    { "SecTicket", "SecQueue", "SecDisplay", "SecDoctor", "SecStats", "SecAdmin", "SecGuide",
      "SecBooking", "SecNotify", "SecGeneric" }

\* the sections of the page _generate_html_template has returned
Chosen == Range(fb_html) \cap Sections

QueueingTerms == { "quhao", "paidui", "duilie" }

AdministrationTerms == { "xitong", "guanli" }

HasAny(name, terms) == \E t \in terms : Has(name, t)

\* the branches in the order they are tested: the terms, whether every term
\* or any of them must occur in the name, and the section
Vocabulary ==
    << [ terms |-> { "quhao", "paidui" }, every |-> FALSE, section |-> "SecTicket" ],
       [ terms |-> { "duilie" }, every |-> FALSE, section |-> "SecQueue" ],
       [ terms |-> { "jiaohao", "xianshi" }, every |-> TRUE, section |-> "SecDisplay" ],
       [ terms |-> { "yisheng", "jiezhen" }, every |-> FALSE, section |-> "SecDoctor" ],
       [ terms |-> { "tongji", "baobiao" }, every |-> FALSE, section |-> "SecStats" ],
       [ terms |-> { "xitong", "guanli" }, every |-> FALSE, section |-> "SecAdmin" ],
       [ terms |-> { "houzhen", "yindao" }, every |-> FALSE, section |-> "SecGuide" ],
       [ terms |-> { "yuyue" }, every |-> FALSE, section |-> "SecBooking" ],
       [ terms |-> { "tongzhi", "xiaoxi" }, every |-> FALSE, section |-> "SecNotify" ] >>

Matches(name, branch) ==
    IF branch.every THEN \A t \in branch.terms : Has(name, t)
    ELSE \E t \in branch.terms : Has(name, t)

\* C22 as stated: a name with a queueing term gets the queue-themed sections,
\* a name with an administration term gets the settings-themed sections, a
\* name with no term of the vocabulary gets the generic sections, and every
\* name gets exactly one section.
C22_TermInNameDecidesBranch ==
    fb_html # NoHtml =>
        LET name == fb_args.module_name
        IN  /\ HasAny(name, QueueingTerms) => Chosen \subseteq { "SecTicket", "SecQueue" }
            /\ HasAny(name, AdministrationTerms) => Chosen = { "SecAdmin" }
            /\ ~HasAny(name, Keywords) => Chosen = { "SecGeneric" }
            /\ Cardinality(Chosen) = 1

\* C22 amended: the branches are tested in a fixed order and the first one
\* whose terms occur in the name decides: a name gets the section of a branch
\* exactly when it matches that branch and none before it, and the generic
\* section exactly when it matches no branch; so a name with a queueing term
\* always gets queue-themed sections, a name with an administration term gets
\* the settings-themed sections unless it matches one of the five branches
\* tested earlier, and every name gets exactly one section.
C22_FirstMatchingBranchDecides ==
    fb_html # NoHtml =>
        LET name == fb_args.module_name
        IN  /\ \A i \in 1..Len(Vocabulary) :
                   (Vocabulary[i].section \in Chosen) <=>
                       /\ Matches(name, Vocabulary[i])
                       /\ \A j \in 1..(i - 1) : ~Matches(name, Vocabulary[j])
            /\ ("SecGeneric" \in Chosen) <=>
                   \A i \in 1..Len(Vocabulary) : ~Matches(name, Vocabulary[i])
            /\ HasAny(name, QueueingTerms) => Chosen \subseteq { "SecTicket", "SecQueue" }
            /\ Cardinality(Chosen) = 1

\* the page for a name with both a queueing term and an administration term
\* has been generated, with the queue-themed section
C22_Witness ==
    /\ fb_html # NoHtml
    /\ Has(fb_args.module_name, "duilie")
    /\ Has(fb_args.module_name, "guanli")
    /\ Chosen = { "SecQueue" }

\* C23: within a run every key of self.variables is assigned at most once:
\* a key that has a value keeps it in every later step, whether the value came
\* from the defaults of --skip-inputs, from the prompts, or from a generation
\* step, and no key is assigned a second time even with the same value.
C23_EveryKeyWrittenAtMostOnce ==
    /\ [][ \A k \in VariableKeys :
               run.variables[k] # Unset => run'.variables[k] = run.variables[k] ]_vars
    /\ [](\A k \in VariableKeys :
              /\ run.writes[k] <= 1
              /\ run.writes[k] = 1 <=> run.variables[k] # Unset)

\* the run has returned after prompting for the inputs, and every key, the
\* prompted ones and the generated ones, has been assigned once
C23_Witness ==
    /\ run.pc = "returned"
    /\ ~run.inputs_collected
    /\ \A k \in VariableKeys : run.writes[k] = 1 /\ run.variables[k] # Unset

\* a step of the AutoGenerator process
WatcherStep == watcher' # watcher

\* C24: the watcher deletes a pending marker only in the step that follows its
\* own observation of the output file of the same name existing with non-zero
\* size, and then returns True; when its wait bound has expired it deletes no
\* marker and returns False.
C24_MarkerConsumedOnlyOnFulfilment ==
    /\ [][ \A f \in OutNames :
               (WatcherStep /\ Exists(pending_files[f]) /\ ~Exists(pending_files'[f])) =>
                   /\ watcher.pc = "unlink"
                   /\ watcher.file = f
                   /\ watcher'.ret = "True" ]_vars
    /\ [][ (watcher'.pc = "unlink" /\ watcher.pc # "unlink") =>
               /\ watcher.pc = "waiting"
               /\ Exists(process_dir[watcher.file])
               /\ Size(process_dir[watcher.file]) > 0 ]_vars
    /\ [][ (watcher.pc = "waiting" /\ ~(watcher.waited < 600) /\ WatcherStep) =>
               /\ pending_files' = pending_files
               /\ watcher'.ret = "False" ]_vars

\* the watcher has deleted the marker of an output file that is there with
\* content, and has returned True, while _call_claude is still in its loop
C24_Witness ==
    /\ watcher.ret = "True"
    /\ watcher.pc = "watching"
    /\ req.pc = "polling"
    /\ req.output_file = watcher.file
    /\ ~Exists(pending_files[watcher.file])
    /\ Size(process_dir[watcher.file]) > 0

\* C25: with _call_claude in auto mode and the watcher waiting for the same
\* output file, neither fails on the pending marker: the watcher process does
\* not end with an error, and _call_claude fails only when its wait bound
\* expires without an output file.
C25_NeitherFailsOnTheMarker ==
    /\ watcher.pc # "crashed"
    /\ req.pc = "failed" => req.how = "timeout"

\* C26: with complete_request running while request_generation polls for the
\* request, neither fails on REQUEST_FILE: complete_request does not end with
\* an error, and request_generation fails only when its wait bound expires
\* without an output file.
C26_NeitherFailsOnTheDescriptor ==
    /\ fulfiller.pc # "crashed"
    /\ req.pc = "failed" => req.how = "timeout"

\* C27: whenever request_generation or _call_claude has returned, on whichever
\* path (existing output, detection in the loop, wait bound exceeded,
\* interruption), the text it returned is not empty.
C27_ReturnedContentIsNonEmpty ==
    req.pc = "returned" => StrLen(req.result[1]) > 0

\* C28: a call of _call_claude that finds its output file with content, in
\* any mode, returns that content in the same step, before any wait; it
\* writes the prompt record and nothing else: the pending markers, the output
\* files and the request slot are as they were.
C28_ExistingOutputIsReturnedAtOnce ==
    [][ (/\ entry = "_call_claude"
         /\ req.pc # "polling"
         /\ (req' # req \/ prompt_files' # prompt_files)
         /\ Exists(process_dir[req'.output_file])
         /\ Size(process_dir[req'.output_file]) > 0)
        => /\ req'.pc = "returned"
           /\ req'.how = "existing"
           /\ req'.waited = 0
           /\ req'.result = << Content(process_dir[req'.output_file]) >>
           /\ prompt_files' = [ prompt_files EXCEPT ![req'.output_file] = File(req'.prompt) ]
           /\ pending_files' = pending_files
           /\ process_dir' = process_dir
           /\ request_file' = request_file ]_vars

\* in auto mode _call_claude has returned the text of an output file that was
\* there when it was called; there is no pending marker for the file, and the
\* prompt record holds the prompt
C28_Witness ==
    /\ mode = "auto"
    /\ req.pc = "returned"
    /\ req.how = "existing"
    /\ req.result = << Content(process_dir[req.output_file]) >>
    /\ ~Exists(pending_files[req.output_file])
    /\ prompt_files[req.output_file] = File(req.prompt)

\* the slot is empty, or its text is not JSON, or a required key is missing
NoDescriptor ==
    \/ ~Exists(request_file)
    \/ Content(request_file) = NotJson
    \/ \E k \in { "task_type", "prompt", "output_file" } :
           k \notin DOMAIN Content(request_file)

\* complete_request has run in this step
CompleteStep ==
    /\ last_call'.op = "complete_request"
    /\ last_call' # last_call \/ process_dir' # process_dir \/ request_file' # request_file

Orders(variables) ==
    { p \in [ 1..Len(variables) -> 1..Len(variables) ] :
        \A i, j \in 1..Len(variables) : i # j => p[i] # p[j] }

\* the variable set with its items in the order p
Reordered(variables, p) == [ i \in 1..Len(variables) |-> variables[p[i]] ]

\* C30: the text replace_variables returns is the template with every {{k}}
\* of the template itself replaced by the value of k, all at once: it is the
\* same in whichever order the keys are applied, and a placeholder that came
\* in with a value is still there in the result.
C30_SimultaneousReplacement ==
    subst.done =>
        /\ \A p \in Orders(subst.variables) :
               replace_variables(subst.template, Reordered(subst.variables, p))
                   = subst.result
        /\ subst.result = TokenByToken(subst.template, subst.variables)

====
